---- MODULE Spec2Model ----
(***************************************************************************)
(* FreightQuick API (src/main.py): the relational store and the request    *)
(* handlers that read and write it.                                        *)
(*                                                                         *)
(* Tables are sets of row records.  A nullable column holds <<>> for NULL  *)
(* and <<v>> for the value v.  A SERIAL id comes from a sequence counter   *)
(* that a rolled-back transaction does not give back.                      *)
(*                                                                         *)
(* Numbers are fixed point integers; every round(x, n) of the code is      *)
(* RoundDiv, so that a rounded value and the exact one are different       *)
(* things:                                                                 *)
(*   loads.miles, routes.total_miles        hundredths of a mile           *)
(*   routes.estimated_hours                 tenths of an hour              *)
(*   routes.fuel_cost, routes.toll_cost     cents                          *)
(*   vehicle_miles.miles                    tenths of a mile               *)
(*   drivers.on_time_rate, random factors   thousandths                    *)
(*   match_score                            hundredths                     *)
(*   pay_records money columns              thousandths of a dollar        *)
(*   net_pay, total_cost, tax_due           cents                          *)
(*   gallons                                thousandths of a gallon        *)
(*   fleet_mpg                              hundredths                     *)
(* Date strings "YYYY-MM-DD" are the numbers YYYYMMDD; datetime.now() is   *)
(* a count of ticks, TicksPerDay to the day.                               *)
(***************************************************************************)
EXTENDS Integers, Sequences, FiniteSets, TLC

VARIABLES
    drivers,        \* table drivers
    loads,          \* table loads
    assignments,    \* table assignments
    routes,         \* table routes
    vehicle_miles,  \* table vehicle_miles
    compliance,     \* table compliance
    pay_records,    \* table pay_records
    insurance_policies, \* table insurance_policies
    companies,      \* table companies
    users,          \* table users
    fuel_entries,   \* table fuel_entries
    seq,            \* the SERIAL sequences: the next id of each table
    now,            \* datetime.now(), in ticks since 1970-01-01 00:00
    calls,          \* requests handled so far, per bounded endpoint
    resp,           \* the last request and the response it produced
    seen            \* an earlier response of a read of derived fields, or NULL

vars == <<drivers, loads, assignments, routes, vehicle_miles, compliance, pay_records,
          insurance_policies, companies, users, fuel_entries, seq, now, calls, resp, seen>>

\* The tables by the part of the API that writes them.
fleet == <<drivers, loads, assignments, routes, vehicle_miles>>

office == <<compliance, pay_records, insurance_policies>>

accounts == <<companies, users>>

-----------------------------------------------------------------------------
(* Bounds of the model *)

\* Largest number of create_assignment calls in a run.
MaxAssignments == 2

\* Largest number of optimize_route calls in a run.
MaxOptimize == 2

\* Largest number of create_load calls in a run.
MaxNewLoads == 1

\* Largest number of create_driver calls in a run.
MaxNewDrivers == 1

\* Largest number of update_driver calls in a run.
MaxDriverUpdates == 1

\* update_load calls.
MaxLoadUpdates == 1

\* Tenants that issue requests: companies 1..MaxCompany.
MaxCompany == 2

\* Clock resolution: ticks per day (time of day is now % TicksPerDay).
TicksPerDay == 2

\* The clock advances at most this many ticks.
MaxTicks == 2

\* Calls of create_compliance.
MaxCompliance == 2

\* Calls of create_pay_record.
MaxPay == 2

\* Calls of create_insurance.
MaxInsurance == 2

\* Calls of add_miles.
MaxMiles == 2

\* Calls of add_fuel.
MaxFuel == 2

\* Calls of company_signup.
MaxSignups == 2

\* Calls of invite_driver.
MaxInvites == 1

\* Calls of accept_invite.
MaxAccepts == 2

\* Calls of make_superadmin.
MaxGrants == 2

\* Days the clock may run past the start of the run.
MaxDays == 15

\* The day the run starts, in days since 1970-01-01 (20500 is 2026-02-16).
StartDay == 20500

-----------------------------------------------------------------------------
(* Values *)

NULL == <<>>

Some(v) == <<v>>

IsNull(x) == x = <<>>

Val(x) == x[1]

\* Python's truth value of an Optional[int] / Optional[float] argument.
Truthy(x) == x # <<>> /\ x[1] # 0

Abs(n) == IF n < 0 THEN -n ELSE n

Min(a, b) == IF a <= b THEN a ELSE b

\* round(): n/d (d > 0) rounded to the nearest integer, a tie to the even one.
\* On a tie Python rounds the binary float, which lies just off the tie, to
\* either neighbour.
RoundDiv(n, d) ==
    LET q == n \div d
        r == n % d
    IN  IF 2 * r < d THEN q
        ELSE IF 2 * r > d THEN q + 1
        ELSE IF q % 2 = 0 THEN q ELSE q + 1

Companies == 1..MaxCompany

-----------------------------------------------------------------------------
(* init_db: the seed rows *)

Drv(i, u, n, s, r) ==
    [id |-> i, company_id |-> 1, username |-> u, full_name |-> n,
     status |-> s, on_time_rate |-> Some(r)]

SeedDrivers ==
    { Drv(1,  "IGRAU",     "Ivan Grau",        "available", 970),
      Drv(2,  "LSANCHEZ",  "Luis Sanchez",     "on_load",   950),
      Drv(3,  "JTORO",     "James Toro",       "available", 930),
      Drv(4,  "MWILSON",   "Mike Wilson",      "available", 980),
      Drv(5,  "SLEONARDS", "Sarah Leonards",   "on_load",   940),
      Drv(6,  "JRINALDI",  "Joe Rinaldi",      "available", 960),
      Drv(7,  "JABIAS",    "Juan Abias",       "available", 910),
      Drv(8,  "CSMITH",    "Carol Smith",      "off_duty",  990),
      Drv(9,  "DVARGAS",   "David Vargas",     "available", 970),
      Drv(10, "MRUSSO",    "Marco Russo",      "on_load",   920),
      Drv(11, "ISANCHEZ",  "Isabella Sanchez", "available", 950) }

Ld(i, n, o, d, m, s) ==
    [id |-> i, company_id |-> 1, load_number |-> n, origin |-> o,
     destination |-> d, miles |-> Some(m), status |-> s,
     assigned_driver_id |-> NULL]

SeedLoads ==
    { Ld(1, "010192-206", "Chicago, IL", "Detroit, MI",     28300, "available"),
      Ld(2, "010202-476", "Dallas, TX",  "Nashville, TN",   67800, "available"),
      Ld(3, "010202-477", "Atlanta, GA", "Charlotte, NC",   24400, "available"),
      Ld(4, "010202-478", "Phoenix, AZ", "Las Vegas, NV",   29700, "available"),
      Ld(5, "010202-479", "Denver, CO",  "Kansas City, MO", 60100, "in_transit"),
      Ld(6, "010202-480", "Houston, TX", "San Antonio, TX", 19700, "available"),
      Ld(7, "010207-481", "Seattle, WA", "Sacramento, CA",  75000, "available"),
      Ld(8, "010202-320", "Boston, MA",  "New York, NY",    21500, "delivered"),
      Ld(9, "010202-321", "Miami, FL",   "Orlando, FL",     23500, "available") }

-----------------------------------------------------------------------------
(* Dates.  A date string "YYYY-MM-DD" is the number YYYYMMDD, which orders  *)
(* as the string does; a day count is days since 1970-01-01.               *)

\* datetime.now().strftime("%Y-%m-%d") of a day count: the proleptic
\* Gregorian calendar of Python's datetime.
CivilDate(z) ==
    LET zz  == z + 719468
        era == zz \div 146097
        doe == zz - era * 146097
        yoe == (doe - doe \div 1460 + doe \div 36524 - doe \div 146096) \div 365
        doy == doe - (365 * yoe + yoe \div 4 - yoe \div 100)
        mp  == (5 * doy + 2) \div 153
        d   == doy - (153 * mp + 2) \div 5 + 1
        m   == IF mp < 10 THEN mp + 3 ELSE mp - 9
        y   == yoe + era * 400 + (IF m <= 2 THEN 1 ELSE 0)
    IN  y * 10000 + m * 100 + d

Today == now \div TicksPerDay

LeapYear(y) == y % 4 = 0 /\ (y % 100 # 0 \/ y % 400 = 0)

DaysInMonth(y, m) ==
    IF m = 2 THEN (IF LeapYear(y) THEN 29 ELSE 28)
    ELSE IF m \in {4, 6, 9, 11} THEN 30 ELSE 31

\* Whether datetime.strptime(text[:10], "%Y-%m-%d") accepts the text: the
\* fields are a date of the calendar.  The empty string is 0.
IsDate(t) ==
    LET y == t \div 10000
        m == (t \div 100) % 100
        d == t % 100
    IN  y \in 1..9999 /\ m \in 1..12 /\ d \in 1..DaysInMonth(y, m)

\* The day count of a date YYYYMMDD: what strptime returns, as days.
DayCount(t) ==
    LET m   == (t \div 100) % 100
        d   == t % 100
        y   == t \div 10000 - (IF m <= 2 THEN 1 ELSE 0)
        era == y \div 400
        yoe == y - era * 400
        mp  == (m + 9) % 12
        doy == (153 * mp + 2) \div 5 + d - 1
        doe == yoe * 365 + yoe \div 4 - yoe \div 100 + doy
    IN  era * 146097 + doe - 719468

-----------------------------------------------------------------------------
(* Responses *)

\* An unhandled exception in a handler: HTTP 500, the transaction is dropped.
ServerError(op) == [op |-> op, ok |-> FALSE, code |-> 500]

\* raise HTTPException(status_code = code, detail = detail)
HttpError(op, code, detail) == [op |-> op, ok |-> FALSE, code |-> code, detail |-> detail]

\* match_types of create_assignment and of match_drivers
match_types == <<"SOURCE LOAD", "4 LOAD TOUR", "1HR TO SOURCE", "SOURCE TOUR">>

-----------------------------------------------------------------------------
(* Drivers *)

\* Usernames a create_driver request may carry: one taken, one free.
NewUsernames == {"IGRAU", "NEWDRV"}

\* POST /api/drivers.  on_time_rate and company_id are not in the INSERT: the
\* row gets the column defaults 0.95 and 1.
create_driver(username, status) ==
    /\ calls.create_driver < MaxNewDrivers
    /\ calls' = [calls EXCEPT !.create_driver = @ + 1]
    /\ seq' = [seq EXCEPT !.drivers = @ + 1]
    /\ IF \E d \in drivers : d.username = username
       THEN /\ resp' = ServerError("create_driver")
            /\ UNCHANGED drivers
       ELSE /\ drivers' = drivers \cup
                  {[id |-> seq.drivers, company_id |-> 1, username |-> username,
                    full_name |-> username, status |-> status,
                    on_time_rate |-> Some(950)]}
            /\ resp' = [op |-> "create_driver", ok |-> TRUE, id |-> seq.drivers]
    /\ UNCHANGED <<loads, assignments, routes, vehicle_miles, now, seen>>
    /\ UNCHANGED <<office, accounts, fuel_entries>>

\* The row `row` after UPDATE ... SET k = v for every field k of `updates`
\* (driver.dict(exclude_unset=True)); a field the model's row does not carry
\* is dropped.
Updated(row, updates) ==
    [k \in DOMAIN row |-> IF k \in DOMAIN updates THEN updates[k] ELSE row[k]]

\* A request body parsed as all its keys, the ones the model does not declare included.
Parsed_Extra(fields, body) == body

\* A request body parsed by its pydantic model (class Driver, class Load): keys
\* the model does not declare are ignored, and id is excluded from the update.
Parsed(fields, body) == [k \in (DOMAIN body) \cap fields |-> body[k]]

\* Drivers an update_driver request may name, and what it may set besides the
\* required username and full_name: status, on_time_rate (0.956, or null).
UpdateDriverIds == {4, 8}

UpdateStatus == {<<>>, [status |-> "available"]}

UpdateRate == {<<>>, [on_time_rate |-> Some(956)], [on_time_rate |-> NULL]}

\* PUT /api/drivers/{driver_id}.  username is UNIQUE: taking another driver's
\* raises and nothing is written.
update_driver(driver_id, updates) ==
    /\ calls.update_driver < MaxDriverUpdates
    /\ calls' = [calls EXCEPT !.update_driver = @ + 1]
    /\ IF \E d \in drivers : d.id = driver_id
          /\ \E o \in drivers : o.id # driver_id /\ o.username = updates.username
       THEN /\ resp' = ServerError("update_driver")
            /\ UNCHANGED drivers
       ELSE /\ drivers' =
                  { IF d.id = driver_id
                    THEN Updated(d, Parsed({"username", "full_name", "status", "driver_type",
                                            "home_base", "current_location",
                                            "loads_completed", "on_time_rate"}, updates))
                    ELSE d : d \in drivers }
            /\ resp' = [op |-> "update_driver", ok |-> TRUE, driver_id |-> driver_id]
    /\ UNCHANGED <<loads, assignments, routes, vehicle_miles, seq, now, seen>>
    /\ UNCHANGED <<office, accounts, fuel_entries>>

-----------------------------------------------------------------------------
(* Match engine *)

\* available_drivers[:5]
MatchLimit == 5

\* Outcomes of random.uniform(0.88, 1.0), in thousandths: the lowest, and one
\* just below the upper end.
RandomFactors == {880, 999}

\* The factors drawn for n candidates, one each: all the same, or one candidate
\* one factor and the others the other.
FactorDraws(n) ==
    { [i \in 1..n |-> IF i = k THEN f ELSE g] :
        f \in RandomFactors, g \in RandomFactors, k \in 1..n }

\* ORDER BY on_time_rate DESC: a before b, or tied.  PostgreSQL sorts NULL
\* first in a descending order.
RateNotBelow(a, b) ==
    \/ IsNull(a.on_time_rate)
    \/ ~IsNull(b.on_time_rate) /\ Val(a.on_time_rate) >= Val(b.on_time_rate)

\* The sequences without repetition of the elements of S.
RECURSIVE Orderings(_)
Orderings(S) ==
    IF S = {} THEN {<<>>}
    ELSE UNION { { <<x>> \o t : t \in Orderings(S \ {x}) } : x \in S }

\* SELECT * FROM drivers WHERE status='available' ORDER BY on_time_rate DESC,
\* cut to the first MatchLimit rows: every order the query may return, the
\* order of drivers of equal on_time_rate being the database's choice.
Candidates ==
    LET avail == {d \in drivers : d.status = "available"}
        n     == Min(MatchLimit, Cardinality(avail))
        tops  == { T \in SUBSET avail :
                     /\ Cardinality(T) = n
                     /\ \A a \in T, b \in avail \ T : RateNotBelow(a, b) }
    IN  { o \in UNION { Orderings(T) : T \in tops } :
            \A i, j \in 1..Len(o) : i < j => RateNotBelow(o[i], o[j]) }

\* round(d["on_time_rate"] * random.uniform(0.88, 1.0), 2)
MatchScore(on_time_rate, factor) == RoundDiv(on_time_rate * factor, 10000)

\* Insert m into ms, sorted by match_score descending, after its equals.
RECURSIVE InsertMatch(_, _)
InsertMatch(m, ms) ==
    IF ms = <<>> THEN <<m>>
    ELSE IF Head(ms).match_score >= m.match_score
         THEN <<Head(ms)>> \o InsertMatch(m, Tail(ms))
         ELSE <<m>> \o ms

\* A sort that leaves out reverse=True: ascending.
RECURSIVE SortMatches_Ascending(_)
SortMatches_Ascending(ms) ==
    IF ms = <<>> THEN <<>>
    ELSE LET rest == SortMatches_Ascending(Tail(ms))
             low  == SelectSeq(rest, LAMBDA x : x.match_score < Head(ms).match_score)
             high == SelectSeq(rest, LAMBDA x : x.match_score >= Head(ms).match_score)
         IN  low \o <<Head(ms)>> \o high

\* matches.sort(key=lambda x: x["match_score"], reverse=True): stable.
RECURSIVE SortMatches(_)
SortMatches(ms) ==
    IF ms = <<>> THEN <<>>
    ELSE InsertMatch(ms[Len(ms)], SortMatches(SubSeq(ms, 1, Len(ms) - 1)))

\* POST /api/match.  A missing load (dict(None)) or a candidate whose
\* on_time_rate is null (None * float) raises.  eta_to_pickup, a random
\* string, is left out of the response.
match_drivers(load_id) ==
    \E order \in Candidates : \E factors \in FactorDraws(Len(order)) :
        LET found   == {l \in loads : l.id = load_id}
            matches == [i \in 1..Len(order) |->
                          [driver |-> order[i],
                           match_score |-> MatchScore(Val(order[i].on_time_rate), factors[i]),
                           match_type |-> match_types[((i - 1) % Len(match_types)) + 1]]]
        IN  /\ IF found = {} \/ \E i \in 1..Len(order) : IsNull(order[i].on_time_rate)
               THEN resp' = [op |-> "match_drivers", ok |-> FALSE, code |-> 500,
                             load_id |-> load_id]
               ELSE resp' = [op |-> "match_drivers", ok |-> TRUE, load_id |-> load_id,
                             load |-> CHOOSE l \in found : TRUE,
                             matches |-> SortMatches(matches)]
            /\ UNCHANGED <<fleet, office, accounts, fuel_entries, seq, now, seen, calls>>

-----------------------------------------------------------------------------
(* Loads *)

\* Load numbers and places a create_load request may carry.
NewLoadNumbers == {"010192-206", "NEW-1"}

NewLoadPlaces == { <<"Toronto, ON", "Detroit, MI">>, <<"reno, nv", "Reno, NV">> }

\* Mileages a create_load request may carry: absent (null), 1 mile, 100.55 miles.
NewLoadMiles == {NULL, Some(100), Some(10055)}

\* POST /api/loads.  The INSERT takes the next id of the sequence, also when the
\* UNIQUE constraint on load_number then rejects the row.
create_load(number, places, miles) ==
    /\ calls.create_load < MaxNewLoads
    /\ calls' = [calls EXCEPT !.create_load = @ + 1]
    /\ seq' = [seq EXCEPT !.loads = @ + 1]
    /\ IF \E l \in loads : l.load_number = number
       THEN /\ resp' = ServerError("create_load")
            /\ UNCHANGED loads
       ELSE /\ loads' = loads \cup
                  {[id |-> seq.loads, company_id |-> 1, load_number |-> number,
                    origin |-> places[1], destination |-> places[2],
                    miles |-> miles, status |-> "available",
                    assigned_driver_id |-> NULL]}
            /\ resp' = [op |-> "create_load", ok |-> TRUE, id |-> seq.loads]
    /\ UNCHANGED <<drivers, assignments, routes, vehicle_miles, now, seen>>
    /\ UNCHANGED <<office, accounts, fuel_entries>>

\* PUT /api/loads/{load_id}: the fields the request sets are written to the
\* row.  load_number is UNIQUE: taking another load's raises and nothing is
\* written.
update_load(load_id, updates) ==
    /\ calls.update_load < MaxLoadUpdates
    /\ calls' = [calls EXCEPT !.update_load = @ + 1]
    /\ IF \E l \in loads : l.id = load_id
          /\ \E o \in loads : o.id # load_id /\ o.load_number = updates.load_number
       THEN /\ resp' = ServerError("update_load")
            /\ UNCHANGED loads
       ELSE /\ loads' =
                  { IF l.id = load_id
                    THEN Updated(l, Parsed({"load_number", "origin", "destination",
                                            "pickup_date", "delivery_date", "weight",
                                            "miles", "rate", "status", "load_type",
                                            "commodity", "assigned_driver_id"}, updates))
                    ELSE l : l \in loads }
            /\ resp' = [op |-> "update_load", ok |-> TRUE, load_id |-> load_id]
    /\ UNCHANGED <<drivers, assignments, routes, vehicle_miles, seq, now, seen>>
    /\ UNCHANGED <<office, accounts, fuel_entries>>

-----------------------------------------------------------------------------
(* Assignments *)

\* A connection closed with its inserts committed all the same.
Rollback_Committed(table, inserted) == table \cup inserted

\* A connection dropped or closed without conn.commit(): the inserts of the transaction are dropped.
Rollback(table, inserted) == table

\* The state list of create_assignment (lines 510 and 515).
DispatchStates ==
    {"AL","AK","AZ","AR","CA","CO","CT","DE","FL","GA","ID","IL","IN","IA","KS",
     "KY","LA","ME","MD","MA","MI","MN","MS","MO","MT","NE","NV","NH","NJ","NM",
     "NY","NC","ND","OH","OK","OR","PA","RI","SC","SD","TN","TX","UT","VT","VA",
     "WA","WV","WI","WY"}

\* place.strip()[-2:].upper() if place else "XX", on the places of the model.
StateOf(place) ==
    CASE place = "Chicago, IL"     -> "IL"
      [] place = "Detroit, MI"     -> "MI"
      [] place = "Dallas, TX"      -> "TX"
      [] place = "Nashville, TN"   -> "TN"
      [] place = "Atlanta, GA"     -> "GA"
      [] place = "Charlotte, NC"   -> "NC"
      [] place = "Phoenix, AZ"     -> "AZ"
      [] place = "Las Vegas, NV"   -> "NV"
      [] place = "Denver, CO"      -> "CO"
      [] place = "Kansas City, MO" -> "MO"
      [] place = "Houston, TX"     -> "TX"
      [] place = "San Antonio, TX" -> "TX"
      [] place = "Seattle, WA"     -> "WA"
      [] place = "Sacramento, CA"  -> "CA"
      [] place = "Boston, MA"      -> "MA"
      [] place = "New York, NY"    -> "NY"
      [] place = "Miami, FL"       -> "FL"
      [] place = "Orlando, FL"     -> "FL"
      [] place = "Toronto, ON"     -> "ON"
      [] place = "reno, nv"        -> "NV"
      [] place = "Reno, NV"        -> "NV"
      [] place = ""                -> "XX"

\* UPDATE drivers SET status='on_load' WHERE id=driver_id
DriversOnLoad(ds, driver_id) ==
    { IF d.id = driver_id THEN [d EXCEPT !.status = "on_load"] ELSE d : d \in ds }

\* A create_assignment that marks the load assigned but leaves its driver unset.
LoadsAssigned_NoDriver(ls, driver_id, load_id) ==
    { IF l.id = load_id THEN [l EXCEPT !.status = "assigned"] ELSE l : l \in ls }

\* UPDATE loads SET status='assigned', assigned_driver_id=driver_id WHERE id=load_id
LoadsAssigned(ls, driver_id, load_id) ==
    { IF l.id = load_id
      THEN [l EXCEPT !.status = "assigned", !.assigned_driver_id = Some(driver_id)]
      ELSE l : l \in ls }

\* The routes row of a new assignment (lines 497-500).
NewRoute(id, assignment_id, route_miles) ==
    [id |-> id, assignment_id |-> assignment_id,
     total_miles |-> route_miles,
     estimated_hours |-> RoundDiv(route_miles, 550),
     fuel_cost |-> RoundDiv(route_miles * 43, 100),
     toll_cost |-> RoundDiv(route_miles * 8, 100)]

\* One vehicle_miles row of a dispatch: round(route_miles*0.5, 1) miles in `state`.
DispatchMiles(id, load, driver_id, driver_name, state, route_miles) ==
    [id |-> id, company_id |-> load.company_id, vehicle |-> driver_id,
     driver_name |-> driver_name, state |-> state,
     miles |-> RoundDiv(route_miles, 20), trip_date |-> CivilDate(Today),
     load_id |-> Some(load.id)]

\* The vehicle_miles rows of a dispatch (lines 501-518): the origin state's row,
\* then the destination state's, each only for a state of the list.
DispatchRows(first_id, load, driver_id, driver_name, route_miles) ==
    LET o  == StateOf(load.origin)
        d  == StateOf(load.destination)
        r1 == IF o \in DispatchStates
              THEN {DispatchMiles(first_id, load, driver_id, driver_name, o, route_miles)}
              ELSE {}
        n  == first_id + Cardinality(r1)
        r2 == IF d \in DispatchStates
              THEN {DispatchMiles(n, load, driver_id, driver_name, d, route_miles)}
              ELSE {}
    IN  r1 \cup r2

\* Driver and load ids a create_assignment request may carry: 12 is no driver;
\* 10 is the created load, or no load.
AssignDriverIds == {1, 12}

AssignLoadIds == {1, 10}

\* match_type of the request: absent, or given.
AssignMatchTypes == {NULL, Some("MANUAL")}

\* Outcomes of round(random.uniform(0.80,0.99),2) and of random.choice(match_types).
RandomScores == {80, 99}

RandomMatchTypes == {match_types[1], match_types[4]}

\* POST /api/assignments: one transaction, committed at line 519.  A missing
\* load (dict(None)) or null miles (None/55) raises before the commit, so nothing
\* is written; the id the INSERT took from the sequence is not given back.
create_assignment(driver_id, load_id, req_type, score, rnd_type) ==
    LET id     == seq.assignments
        mtype  == IF req_type = NULL THEN rnd_type ELSE Val(req_type)
        ls     == LoadsAssigned(loads, driver_id, load_id)
        found  == {l \in ls : l.id = load_id}
        load   == CHOOSE l \in found : TRUE
        drow   == {d \in drivers : d.id = driver_id}
        dname  == IF drow = {} THEN "Unknown" ELSE (CHOOSE d \in drow : TRUE).full_name
        miles  == Val(load.miles)
        rows   == DispatchRows(seq.vehicle_miles, load, driver_id, dname, miles)
    IN  /\ calls.create_assignment < MaxAssignments
        /\ calls' = [calls EXCEPT !.create_assignment = @ + 1]
        /\ IF found = {} \/ IsNull(load.miles)
           THEN /\ seq' = [seq EXCEPT !.assignments = @ + 1]
                /\ resp' = [op |-> "create_assignment", ok |-> FALSE, code |-> 500,
                            driver_id |-> driver_id, load_id |-> load_id]
                /\ assignments' = Rollback(assignments,
                       {[id |-> id, driver_id |-> driver_id, load_id |-> load_id,
                         match_score |-> score, match_type |-> mtype,
                         status |-> "active"]})
                /\ UNCHANGED <<drivers, loads, routes, vehicle_miles>>
           ELSE /\ assignments' = assignments \cup
                      {[id |-> id, driver_id |-> driver_id, load_id |-> load_id,
                        match_score |-> score, match_type |-> mtype,
                        status |-> "active"]}
                /\ drivers' = DriversOnLoad(drivers, driver_id)
                /\ loads' = ls
                /\ routes' = routes \cup {NewRoute(seq.routes, id, miles)}
                /\ vehicle_miles' = vehicle_miles \cup rows
                /\ seq' = [seq EXCEPT !.assignments = @ + 1, !.routes = @ + 1,
                                      !.vehicle_miles = @ + Cardinality(rows)]
                /\ resp' = [op |-> "create_assignment", ok |-> TRUE, id |-> id,
                            driver_id |-> driver_id, load_id |-> load_id,
                            match_score |-> score, match_type |-> mtype]
        /\ UNCHANGED <<now, seen, office, accounts, fuel_entries>>

-----------------------------------------------------------------------------
(* Routes *)

\* What get_real_route may return: None (no key, no network, a place the
\* service does not know), or the service's miles and hours, each rounded to
\* one decimal.
RouteServiceOutcomes ==
    {NULL, Some([miles |-> 26010, hours |-> 47]), Some([miles |-> 30000, hours |-> 55])}

\* Outcomes of random.uniform(0.03, 0.08), in thousandths.
RandomSavings == {30, 80}

\* An optimize_route that adds the savings percentage instead of taking it off.
DiscountedMiles_Added(total_miles, savings_pct) ==
    10 * RoundDiv(total_miles * (1000 + savings_pct), 10000)

\* round(total_miles * (1 - savings_pct), 1)
DiscountedMiles(total_miles, savings_pct) ==
    10 * RoundDiv(total_miles * (1000 - savings_pct), 10000)

\* round(new_miles * 0.43, 2)
FuelCost(new_miles) == RoundDiv(new_miles * 43, 100)

\* round(route["total_miles"] - new_miles, 1), in tenths of a mile
SavingsMiles(total_miles, new_miles) == RoundDiv(total_miles - new_miles, 10)

\* UPDATE routes SET total_miles, estimated_hours, fuel_cost WHERE assignment_id
RoutesUpdated(rs, assignment_id, miles, hours, fuel) ==
    { IF r.assignment_id = assignment_id
      THEN [r EXCEPT !.total_miles = miles, !.estimated_hours = hours, !.fuel_cost = fuel]
      ELSE r : r \in rs }

\* The rows of routes JOIN assignments JOIN loads for one assignment (line 593).
RouteJoin(assignment_id) ==
    { r \in routes :
        /\ r.assignment_id = assignment_id
        /\ \E a \in assignments : a.id = r.assignment_id /\ \E l \in loads : l.id = a.load_id }

\* POST /api/routes/optimize.  No route for the assignment: dict(None) raises.
optimize_route(assignment_id, real, savings_pct) ==
    LET found == RouteJoin(assignment_id)
        route == CHOOSE r \in found : TRUE
        new_miles == IF real # NULL THEN Val(real).miles
                     ELSE DiscountedMiles(route.total_miles, savings_pct)
        new_hours == IF real # NULL THEN Val(real).hours ELSE RoundDiv(new_miles, 550)
        new_fuel  == FuelCost(new_miles)
    IN  /\ calls.optimize_route < MaxOptimize
        /\ calls' = [calls EXCEPT !.optimize_route = @ + 1]
        /\ IF found = {}
           THEN /\ resp' = [op |-> "optimize_route", ok |-> FALSE, code |-> 500,
                            assignment_id |-> assignment_id]
                /\ UNCHANGED routes
           ELSE /\ routes' = RoutesUpdated(routes, assignment_id, new_miles, new_hours, new_fuel)
                /\ resp' = [op |-> "optimize_route", ok |-> TRUE,
                            assignment_id |-> assignment_id,
                            route |-> route, service |-> real,
                            optimized |-> TRUE, real_route |-> (real # NULL),
                            total_miles |-> new_miles,
                            savings_miles |-> SavingsMiles(route.total_miles, new_miles)]
        /\ UNCHANGED <<drivers, loads, assignments, vehicle_miles, seq, now, seen>>
        /\ UNCHANGED <<office, accounts, fuel_entries>>

-----------------------------------------------------------------------------
(* Read endpoints.  `tenant` is the company the request is made for; a handler *)
(* sees of it only what its parameters carry.                                 *)

Reads(op, tenant, rows) == [op |-> op, ok |-> TRUE, tenant |-> tenant, rows |-> rows]

\* GET /api/drivers?status=&company_id=
DriverRows(status, company_id) ==
    { d \in drivers :
        /\ (Truthy(company_id) => d.company_id = Val(company_id))
        /\ (status # NULL => d.status = Val(status)) }

get_drivers(tenant, status, company_id) ==
    /\ resp' = Reads("get_drivers", tenant, DriverRows(status, company_id))
    /\ UNCHANGED <<fleet, office, accounts, fuel_entries, seq, now, seen, calls>>

\* GET /api/loads?status=&company_id=
LoadRows(status, company_id) ==
    { l \in loads :
        /\ (Truthy(company_id) => l.company_id = Val(company_id))
        /\ (status # NULL => l.status = Val(status)) }

get_loads(tenant, status, company_id) ==
    /\ resp' = Reads("get_loads", tenant, LoadRows(status, company_id))
    /\ UNCHANGED <<fleet, office, accounts, fuel_entries, seq, now, seen, calls>>

\* GET /api/assignments: assignments JOIN drivers JOIN loads, no WHERE clause.
AssignmentRows ==
    { a \in assignments :
        (\E d \in drivers : d.id = a.driver_id) /\ (\E l \in loads : l.id = a.load_id) }

get_assignments(tenant) ==
    /\ resp' = Reads("get_assignments", tenant, AssignmentRows)
    /\ UNCHANGED <<fleet, office, accounts, fuel_entries, seq, now, seen, calls>>

\* GET /api/routes: routes JOIN assignments JOIN drivers JOIN loads, no WHERE clause.
RouteRows ==
    { r \in routes : \E a \in AssignmentRows : a.id = r.assignment_id }

get_routes(tenant) ==
    /\ resp' = Reads("get_routes", tenant, RouteRows)
    /\ UNCHANGED <<fleet, office, accounts, fuel_entries, seq, now, seen, calls>>

-----------------------------------------------------------------------------
(* The clock *)

Tick ==
    /\ now < StartDay * TicksPerDay + MaxTicks
    /\ now' = now + 1
    /\ UNCHANGED <<fleet, office, accounts, fuel_entries, seq, calls, resp, seen>>

\* Time passing between two requests: half a day, a day, a week.
SleepTicks == {1, TicksPerDay, 7 * TicksPerDay}

Sleep(ticks) ==
    /\ now + ticks <= (StartDay + MaxDays) * TicksPerDay
    /\ now' = now + ticks
    /\ UNCHANGED <<fleet, office, accounts, fuel_entries, seq, calls, resp, seen>>

-----------------------------------------------------------------------------
(* Compliance.  The TEXT date columns hold date strings as numbers YYYYMMDD. *)

\* (exp - datetime.now()).days is the floor of the difference in days.
get_compliance_status(expiry_date) ==
    IF IsNull(expiry_date) \/ Val(expiry_date) = 0 THEN "missing"
    ELSE IF ~IsDate(Val(expiry_date)) THEN "missing"
    ELSE LET exp       == DayCount(Val(expiry_date)) * TicksPerDay
             days_left == (exp - now) \div TicksPerDay
         IN  IF days_left < 0 THEN "expired"
             ELSE IF days_left <= 30 THEN "expiring_soon"
             ELSE "ok"

ComplianceDateFields ==
    {"cdl_expiry", "medical_card_expiry", "mvr_date", "drug_test_date",
     "annual_inspection_expiry"}

\* The ComplianceRecord of a request body: a field left out takes its default.
ComplianceRecord(body) ==
    [driver_id                |-> body.driver_id,
     cdl_expiry               |-> IF "cdl_expiry" \in DOMAIN body THEN body.cdl_expiry ELSE NULL,
     medical_card_expiry      |-> IF "medical_card_expiry" \in DOMAIN body
                                  THEN body.medical_card_expiry ELSE NULL,
     mvr_date                 |-> IF "mvr_date" \in DOMAIN body THEN body.mvr_date ELSE NULL,
     drug_test_date           |-> IF "drug_test_date" \in DOMAIN body
                                  THEN body.drug_test_date ELSE NULL,
     annual_inspection_expiry |-> IF "annual_inspection_expiry" \in DOMAIN body
                                  THEN body.annual_inspection_expiry ELSE NULL,
     notes                    |-> IF "notes" \in DOMAIN body THEN body.notes ELSE Some("")]

\* An INSERT that adds the row whatever rows there are.
ComplianceUpsert_Append(rows, id, record) ==
    rows \cup {[id |-> id] @@ record}

\* INSERT ... ON CONFLICT (driver_id) DO UPDATE SET the date fields and notes.
ComplianceUpsert(rows, id, record) ==
    IF \E r \in rows : r.driver_id = record.driver_id
    THEN { IF r.driver_id = record.driver_id THEN [id |-> r.id] @@ record ELSE r : r \in rows }
    ELSE rows \cup {[id |-> id] @@ record}

\* POST /api/compliance.  The id is drawn from the sequence before the conflict
\* is detected.
create_compliance(body) ==
    /\ calls.create_compliance < MaxCompliance
    /\ calls' = [calls EXCEPT !.create_compliance = @ + 1]
    /\ compliance' = ComplianceUpsert(compliance, seq.compliance, ComplianceRecord(body))
    /\ seq' = [seq EXCEPT !.compliance = @ + 1]
    /\ resp' = [op |-> "create_compliance", ok |-> TRUE, body |-> body]
    /\ UNCHANGED <<fleet, pay_records, insurance_policies, accounts, fuel_entries, now, seen>>

\* compliance JOIN drivers
ComplianceJoin ==
    UNION { { co @@ [username |-> d.username, full_name |-> d.full_name] :
                d \in {x \in drivers : x.id = co.driver_id} } : co \in compliance }

ComplianceStatuses(r) ==
    [cdl_status        |-> get_compliance_status(r.cdl_expiry),
     medical_status    |-> get_compliance_status(r.medical_card_expiry),
     inspection_status |-> get_compliance_status(r.annual_inspection_expiry),
     drug_test_status  |-> get_compliance_status(r.drug_test_date)]

\* GET /api/compliance
get_compliance ==
    /\ resp' = [op |-> "get_compliance", ok |-> TRUE, at |-> now,
                records |-> { [row |-> r, derived |-> ComplianceStatuses(r)] : r \in ComplianceJoin }]
    /\ UNCHANGED <<fleet, office, accounts, fuel_entries, seq, now, calls>>

\* The bodies posted to /api/compliance.
ComplianceDates ==
    {NULL, Some(0), Some(20260230), Some(20260215), Some(20260216), Some(20260217),
     Some(20260318), Some(20260319)}

ComplianceBodies ==
    { [driver_id |-> 1, cdl_expiry |-> e] : e \in ComplianceDates } \cup
    { [driver_id |-> 1, cdl_expiry |-> Some(20260216), notes |-> Some("renewed")],
      [driver_id |-> 1, medical_card_expiry |-> Some(20260319), notes |-> NULL],
      [driver_id |-> 2],
      [driver_id |-> 12, cdl_expiry |-> Some(20260216)] }

-----------------------------------------------------------------------------
(* TruckPay.  Money is in thousandths of a dollar, net_pay in cents. *)

\* The PayRecord of a request body: a field left out takes its default.
PayRecord(body) ==
    [driver_id           |-> body.driver_id,
     load_id             |-> IF "load_id" \in DOMAIN body THEN body.load_id ELSE NULL,
     week_ending         |-> body.week_ending,
     gross_pay           |-> body.gross_pay,
     fuel_deduction      |-> IF "fuel_deduction" \in DOMAIN body
                             THEN body.fuel_deduction ELSE Some(0),
     insurance_deduction |-> IF "insurance_deduction" \in DOMAIN body
                             THEN body.insurance_deduction ELSE Some(0),
     advance_deduction   |-> IF "advance_deduction" \in DOMAIN body
                             THEN body.advance_deduction ELSE Some(0),
     other_deduction     |-> IF "other_deduction" \in DOMAIN body
                             THEN body.other_deduction ELSE Some(0),
     notes               |-> IF "notes" \in DOMAIN body THEN body.notes ELSE Some("")]

\* POST /api/pay
create_pay_record(body) ==
    /\ calls.create_pay_record < MaxPay
    /\ calls' = [calls EXCEPT !.create_pay_record = @ + 1]
    /\ pay_records' = pay_records \cup {[id |-> seq.pay_records] @@ PayRecord(body)}
    /\ seq' = [seq EXCEPT !.pay_records = @ + 1]
    /\ resp' = [op |-> "create_pay_record", ok |-> TRUE, body |-> body]
    /\ UNCHANGED <<fleet, compliance, insurance_policies, accounts, fuel_entries, now, seen>>

\* pay_records JOIN drivers [WHERE p.driver_id = driver_id]
PayJoin(driver_id) ==
    UNION { { p @@ [username |-> d.username, full_name |-> d.full_name] :
                d \in {x \in drivers : x.id = p.driver_id} } :
            p \in {x \in pay_records : Truthy(driver_id) => x.driver_id = Val(driver_id)} }

Deductions(r) ==
    <<r.fuel_deduction, r.insurance_deduction, r.advance_deduction, r.other_deduction>>

TotalDeductions(r) ==
    Val(r.fuel_deduction) + Val(r.insurance_deduction) + Val(r.advance_deduction)
        + Val(r.other_deduction)

\* A net pay that leaves the deductions out.
NetPay_Gross(gross_pay, total_deductions) == RoundDiv(gross_pay, 10)

\* round(r["gross_pay"] - r["total_deductions"], 2)
NetPay(gross_pay, total_deductions) == RoundDiv(gross_pay - total_deductions, 10)

\* GET /api/pay?driver_id=.  Adding a NULL deduction raises, and the request
\* fails as a whole.
get_pay_records(driver_id) ==
    /\ IF \E r \in PayJoin(driver_id) : \E i \in 1..4 : IsNull(Deductions(r)[i])
       THEN resp' = [op |-> "get_pay_records", ok |-> FALSE, code |-> 500, driver_id |-> driver_id]
       ELSE resp' = [op |-> "get_pay_records", ok |-> TRUE, at |-> now, driver_id |-> driver_id,
                     records |-> { [row |-> r,
                                    derived |-> [total_deductions |-> TotalDeductions(r),
                                                 net_pay |-> NetPay(r.gross_pay, TotalDeductions(r))]] :
                                   r \in PayJoin(driver_id) }]
    /\ UNCHANGED <<fleet, office, accounts, fuel_entries, seq, now, calls>>

RECURSIVE SumDeductions(_)
SumDeductions(rows) ==
    IF rows = {} THEN 0
    ELSE LET r == CHOOSE x \in rows : TRUE
         IN  TotalDeductions(r) + SumDeductions(rows \ {r})

RECURSIVE SumGross(_)
SumGross(rows) ==
    IF rows = {} THEN 0
    ELSE LET r == CHOOSE x \in rows : TRUE
         IN  r.gross_pay + SumGross(rows \ {r})

\* GET /api/pay/summary: every row of pay_records, no join.  Adding a NULL
\* deduction raises.  The totals are in cents.
pay_summary ==
    /\ IF \E r \in pay_records : \E i \in 1..4 : IsNull(Deductions(r)[i])
       THEN resp' = ServerError("pay_summary")
       ELSE LET total_gross      == SumGross(pay_records)
                total_deductions == SumDeductions(pay_records)
            IN  resp' = [op |-> "pay_summary", ok |-> TRUE, at |-> now,
                         total_gross |-> RoundDiv(total_gross, 10),
                         total_deductions |-> RoundDiv(total_deductions, 10),
                         total_net |-> RoundDiv(total_gross - total_deductions, 10),
                         total_records |-> Cardinality(pay_records)]
    /\ UNCHANGED <<fleet, office, accounts, fuel_entries, seq, now, calls>>

\* The bodies posted to /api/pay.
PayBodies ==
    { [driver_id |-> 1, week_ending |-> 20260214, gross_pay |-> g, fuel_deduction |-> f] :
        g \in {1000000, 1234565}, f \in {NULL, Some(100009)} } \cup
    { [driver_id |-> 1, week_ending |-> 20260214, gross_pay |-> 1234565],
      [driver_id |-> 2, week_ending |-> 20260207, gross_pay |-> 500000,
       fuel_deduction |-> Some(100000), insurance_deduction |-> Some(50000),
       advance_deduction |-> Some(400000), other_deduction |-> Some(25500)],
      [driver_id |-> 12, week_ending |-> 20260214, gross_pay |-> 1000000] }

PayDriverIds == {NULL, Some(0), Some(1), Some(2)}

-----------------------------------------------------------------------------
(* Fuel and IFTA.  Miles are in tenths of a mile, gallons in thousandths of *)
(* a gallon, prices and tax rates in thousandths of a dollar per gallon,    *)
(* fleet_mpg in hundredths, costs and taxes in cents.                       *)

IFTA_RATES ==
    ("AL" :> 290) @@ ("AK" :> 80) @@ ("AZ" :> 260) @@ ("AR" :> 285) @@ ("CA" :> 823) @@
    ("CO" :> 205) @@ ("CT" :> 402) @@ ("DE" :> 220) @@ ("FL" :> 337) @@ ("GA" :> 312) @@
    ("ID" :> 320) @@ ("IL" :> 455) @@ ("IN" :> 530) @@ ("IA" :> 325) @@ ("KS" :> 260) @@
    ("KY" :> 246) @@ ("LA" :> 200) @@ ("ME" :> 312) @@ ("MD" :> 373) @@ ("MA" :> 240) @@
    ("MI" :> 263) @@ ("MN" :> 285) @@ ("MS" :> 180) @@ ("MO" :> 170) @@ ("MT" :> 290) @@
    ("NE" :> 246) @@ ("NV" :> 270) @@ ("NH" :> 222) @@ ("NJ" :> 418) @@ ("NM" :> 210) @@
    ("NY" :> 474) @@ ("NC" :> 362) @@ ("ND" :> 230) @@ ("OH" :> 385) @@ ("OK" :> 190) @@
    ("OR" :> 360) @@ ("PA" :> 576) @@ ("RI" :> 340) @@ ("SC" :> 260) @@ ("SD" :> 280) @@
    ("TN" :> 270) @@ ("TX" :> 200) @@ ("UT" :> 245) @@ ("VT" :> 270) @@ ("VA" :> 262) @@
    ("WA" :> 494) @@ ("WV" :> 357) @@ ("WI" :> 329) @@ ("WY" :> 240)

DefaultRate == 250

\* POST /api/fuel.  fuel_date is a DATE column: a string that is no date is
\* refused by the INSERT.
add_fuel(data) ==
    /\ calls.add_fuel < MaxFuel
    /\ calls' = [calls EXCEPT !.add_fuel = @ + 1]
    /\ LET total == RoundDiv(data.gallons * data.price_per_gallon, 10000)
       IN  IF ~IsDate(data.fuel_date)
           THEN /\ resp' = ServerError("add_fuel")
                /\ UNCHANGED <<fuel_entries, seq>>
           ELSE /\ fuel_entries' = fuel_entries \cup
                       {[id |-> seq.fuel_entries, company_id |-> data.company_id,
                         vehicle |-> data.vehicle, state |-> data.state,
                         gallons |-> data.gallons,
                         price_per_gallon |-> data.price_per_gallon,
                         total_cost |-> total, fuel_date |-> data.fuel_date]}
                /\ seq' = [seq EXCEPT !.fuel_entries = @ + 1]
                /\ resp' = [op |-> "add_fuel", ok |-> TRUE, id |-> seq.fuel_entries,
                            total_cost |-> total]
    /\ UNCHANGED <<fleet, office, accounts, now, seen>>

\* POST /api/miles.  trip_date is a DATE column.
add_miles(data) ==
    /\ calls.add_miles < MaxMiles
    /\ calls' = [calls EXCEPT !.add_miles = @ + 1]
    /\ IF ~IsDate(data.trip_date)
       THEN /\ resp' = ServerError("add_miles")
            /\ UNCHANGED <<vehicle_miles, seq>>
       ELSE /\ vehicle_miles' = vehicle_miles \cup
                   {[id |-> seq.vehicle_miles, company_id |-> data.company_id,
                     vehicle |-> data.vehicle, driver_name |-> data.driver_name,
                     state |-> data.state, miles |-> data.miles,
                     trip_date |-> data.trip_date, load_id |-> NULL]}
            /\ seq' = [seq EXCEPT !.vehicle_miles = @ + 1]
            /\ resp' = [op |-> "add_miles", ok |-> TRUE]
    /\ UNCHANGED <<drivers, loads, assignments, routes, office, accounts, fuel_entries,
                   now, seen>>

\* The first and last day of a quarter, as dates YYYYMMDD.
Quarters == <<<<101, 331>>, <<401, 630>>, <<701, 930>>, <<1001, 1231>>>>

RECURSIVE SumOf(_, _)
\* SUM(field) over rows
SumOf(rows, field) ==
    IF rows = {} THEN 0
    ELSE LET r == CHOOSE x \in rows : TRUE
         IN  r[field] + SumOf(rows \ {r}, field)

\* A query that leaves out the company.
InQuarter_AnyCompany(rows, date, company_id, quarter, year) ==
    { r \in rows : /\ r[date] >= year * 10000 + Quarters[quarter][1]
                   /\ r[date] <= year * 10000 + Quarters[quarter][2] }

\* WHERE company_id = ... AND date BETWEEN start AND end
InQuarter(rows, date, company_id, quarter, year) ==
    { r \in rows : /\ r.company_id = company_id
                   /\ r[date] >= year * 10000 + Quarters[quarter][1]
                   /\ r[date] <= year * 10000 + Quarters[quarter][2] }

\* round(total_miles / total_gallons, 2) if total_gallons > 0 else 0
FleetMpg(total_miles, total_gallons) ==
    IF total_gallons > 0 THEN RoundDiv(10000 * total_miles, total_gallons) ELSE 0

\* round(miles / fleet_mpg, 3) if fleet_mpg > 0 else 0
GallonsConsumed(miles, fleet_mpg) ==
    IF fleet_mpg > 0 THEN RoundDiv(10000 * miles, fleet_mpg) ELSE 0

Rate(state) == IF state \in DOMAIN IFTA_RATES THEN IFTA_RATES[state] ELSE DefaultRate

\* A tax that differs with the time of day of the request.
TaxDue_Timed(gallons_consumed, gallons_purchased, rate) ==
    RoundDiv((gallons_consumed - gallons_purchased) * rate, 10000) + (now % TicksPerDay)

\* round((gallons_consumed - gallons_purchased) * rate, 2)
TaxDue(gallons_consumed, gallons_purchased, rate) ==
    RoundDiv((gallons_consumed - gallons_purchased) * rate, 10000)

Jurisdiction(state, miles_rows, fuel_rows, fleet_mpg) ==
    LET miles             == SumOf({r \in miles_rows : r.state = state}, "miles")
        gallons_purchased == SumOf({r \in fuel_rows : r.state = state}, "gallons")
        gallons_consumed  == GallonsConsumed(miles, fleet_mpg)
        tax_due           == TaxDue(gallons_consumed, gallons_purchased, Rate(state))
    IN  [state             |-> state,
         miles             |-> miles,
         gallons_purchased |-> gallons_purchased,
         gallons_consumed  |-> gallons_consumed,
         tax_rate          |-> Rate(state),
         tax_due           |-> tax_due,
         status            |-> IF tax_due > 0 THEN "DUE" ELSE "CREDIT"]

\* The state codes of the model in the order of Python's string comparison.
StateOrder ==
    <<"AK","AL","AR","AZ","CA","CO","CT","DE","FL","GA","IA","ID","IL","IN","KS",
      "KY","LA","MA","MD","ME","MI","MN","MO","MS","MT","NC","ND","NE","NH","NJ",
      "NM","NV","NY","OH","OK","ON","OR","PA","RI","SC","SD","TN","TX","UT","VA",
      "VT","WA","WI","WV","WY","XX","ZZ">>

\* set(...) of the states, then jurisdictions.sort(key=lambda x: x["state"]):
\* each state once, in ascending order.
SortedStates(states) == SelectSeq(StateOrder, LAMBDA st : st \in states)

\* GET /api/ifta/report?company_id=&quarter=&year=.  A quarter outside 1..4 is
\* a KeyError.
ifta_report(company_id, quarter, year) ==
    /\ IF quarter \notin 1..4
       THEN resp' = [op |-> "ifta_report", ok |-> FALSE, code |-> 500,
                     company_id |-> company_id, quarter |-> quarter, year |-> year]
       ELSE LET miles_rows    == InQuarter(vehicle_miles, "trip_date", company_id, quarter, year)
                fuel_rows     == InQuarter(fuel_entries, "fuel_date", company_id, quarter, year)
                total_miles   == SumOf(miles_rows, "miles")
                total_gallons == SumOf(fuel_rows, "gallons")
                fleet_mpg     == FleetMpg(total_miles, total_gallons)
                states        == {r.state : r \in miles_rows} \cup {r.state : r \in fuel_rows}
                order         == SortedStates(states)
                listed        == [i \in 1..Len(order) |->
                                     Jurisdiction(order[i], miles_rows, fuel_rows, fleet_mpg)]
                jurisdictions == {listed[i] : i \in 1..Len(listed)}
            IN  resp' = [op |-> "ifta_report", ok |-> TRUE, at |-> now,
                         company_id |-> company_id, quarter |-> quarter, year |-> year,
                         total_miles |-> total_miles, total_gallons |-> total_gallons,
                         fleet_mpg |-> fleet_mpg,
                         total_tax_due |-> SumOf(jurisdictions, "tax_due"),
                         jurisdictions |-> jurisdictions, listed |-> listed]
    /\ UNCHANGED <<fleet, office, accounts, fuel_entries, seq, now, calls>>

\* x * y / d (d > 0) rounded as RoundDiv rounds, computed without forming the
\* product x * y, which does not fit the checker's integers.
MulDivRound(x, y, d) ==
    LET whole == x * (y \div d)
        rest  == x * (y % d)
        q     == whole + rest \div d
        r     == rest % d
    IN  IF 2 * r < d THEN q
        ELSE IF 2 * r > d THEN q + 1
        ELSE IF q % 2 = 0 THEN q ELSE q + 1

\* One line of the CSV export.  fleet_mpg is total_miles / total_gallons,
\* unrounded, so round(miles / fleet_mpg, 3) is miles * total_gallons /
\* total_miles rounded to the thousandth.
ExportRow(state, miles_rows, fuel_rows, total_miles, total_gallons) ==
    LET miles             == SumOf({r \in miles_rows : r.state = state}, "miles")
        gallons_purchased == SumOf({r \in fuel_rows : r.state = state}, "gallons")
        gallons_consumed  == IF total_gallons > 0 /\ total_miles > 0
                             THEN MulDivRound(miles, total_gallons, total_miles)
                             ELSE 0
        tax_due           == TaxDue(gallons_consumed, gallons_purchased, Rate(state))
    IN  [state             |-> state,
         miles             |-> miles,
         gallons_purchased |-> gallons_purchased,
         gallons_consumed  |-> gallons_consumed,
         tax_rate          |-> Rate(state),
         tax_due           |-> tax_due,
         status            |-> IF tax_due > 0 THEN "DUE" ELSE "CREDIT"]

\* GET /api/ifta/export?company_id=&quarter=&year=: the header line and one
\* line for each state, in sorted order.  A quarter outside 1..4 is a KeyError.
ifta_export(company_id, quarter, year) ==
    /\ IF quarter \notin 1..4
       THEN resp' = [op |-> "ifta_export", ok |-> FALSE, code |-> 500,
                     company_id |-> company_id, quarter |-> quarter, year |-> year]
       ELSE LET miles_rows    == InQuarter(vehicle_miles, "trip_date", company_id, quarter, year)
                fuel_rows     == InQuarter(fuel_entries, "fuel_date", company_id, quarter, year)
                total_miles   == SumOf(miles_rows, "miles")
                total_gallons == SumOf(fuel_rows, "gallons")
                states        == {r.state : r \in miles_rows} \cup {r.state : r \in fuel_rows}
                order         == SortedStates(states)
            IN  resp' = [op |-> "ifta_export", ok |-> TRUE, at |-> now,
                         company_id |-> company_id, quarter |-> quarter, year |-> year,
                         total_miles |-> total_miles, total_gallons |-> total_gallons,
                         fleet_mpg |-> FleetMpg(total_miles, total_gallons),
                         lines |-> [i \in 1..Len(order) |->
                                       ExportRow(order[i], miles_rows, fuel_rows,
                                                 total_miles, total_gallons)]]
    /\ UNCHANGED <<fleet, office, accounts, fuel_entries, seq, now, calls>>

\* The bodies posted to /api/miles and /api/fuel.
MilesBodies ==
    { [company_id |-> 1, vehicle |-> 7, driver_name |-> "Ivan Grau", state |-> "TX",
       miles |-> 10000, trip_date |-> 20260216],
      [company_id |-> 1, vehicle |-> 7, driver_name |-> "Ivan Grau", state |-> "OK",
       miles |-> 10000, trip_date |-> 20260331],
      [company_id |-> 1, vehicle |-> 7, driver_name |-> "Ivan Grau", state |-> "ZZ",
       miles |-> 2505, trip_date |-> 20260401],
      [company_id |-> 1, vehicle |-> 7, driver_name |-> "Ivan Grau", state |-> "TX",
       miles |-> 10000, trip_date |-> 20260230] }

FuelBodies ==
    { [company_id |-> 1, vehicle |-> 7, state |-> "TX", gallons |-> 300000,
       price_per_gallon |-> 3499, fuel_date |-> 20260216],
      [company_id |-> 1, vehicle |-> 7, state |-> "OK", gallons |-> 120500,
       price_per_gallon |-> 3499, fuel_date |-> 20260402],
      [company_id |-> 1, vehicle |-> 7, state |-> "TX", gallons |-> 300000,
       price_per_gallon |-> 3499, fuel_date |-> 20260931] }

ReportQuarters == {1, 2, 5}

\* Miles and fuel of two companies on first and last days of quarters and in
\* the year after the reported one.
QuarterMilesBodies ==
    { [company_id |-> b[1], vehicle |-> 7, driver_name |-> "Ivan Grau", state |-> b[2],
       miles |-> 10000, trip_date |-> b[3]] :
        b \in { <<1, "TX", 20260331>>, <<1, "OK", 20260401>>, <<1, "TX", 20261231>>,
                <<2, "TX", 20260331>>, <<1, "TX", 20270101>> } }

QuarterFuelBodies ==
    { [company_id |-> 1, vehicle |-> 7, state |-> "AZ", gallons |-> 300000,
       price_per_gallon |-> 3499, fuel_date |-> 20260401] }

ReportYear == 2026

-----------------------------------------------------------------------------
(* Summaries of compliance records and insurance policies *)

\* The number of rows that have one of the statuses `fields` name in `status`.
CountStatus(rows, fields, status) ==
    Cardinality({r \in rows : \E f \in fields : get_compliance_status(r[f]) = status})

\* GET /api/compliance/summary
compliance_summary ==
    /\ LET fields   == {"cdl_expiry", "medical_card_expiry"}
           total    == Cardinality(compliance)
           expired  == CountStatus(compliance, fields, "expired")
           expiring == CountStatus(compliance, fields, "expiring_soon")
       IN  resp' = [op |-> "compliance_summary", ok |-> TRUE, at |-> now,
                    total |-> total, expired |-> expired, expiring_soon |-> expiring,
                    compliant |-> total - expired - expiring]
    /\ UNCHANGED <<fleet, office, accounts, fuel_entries, seq, now, calls>>

\* POST /api/insurance.  expiry_date is a TEXT NOT NULL column; premium is in cents.
create_insurance(policy) ==
    /\ calls.create_insurance < MaxInsurance
    /\ calls' = [calls EXCEPT !.create_insurance = @ + 1]
    /\ insurance_policies' = insurance_policies \cup
           {[id |-> seq.insurance_policies, truck_number |-> policy.truck_number,
             policy_number |-> policy.policy_number, premium |-> policy.premium,
             expiry_date |-> Some(policy.expiry_date)]}
    /\ seq' = [seq EXCEPT !.insurance_policies = @ + 1]
    /\ resp' = [op |-> "create_insurance", ok |-> TRUE]
    /\ UNCHANGED <<fleet, compliance, pay_records, accounts, fuel_entries, now, seen>>

\* GET /api/insurance/summary
insurance_summary ==
    /\ LET total    == Cardinality(insurance_policies)
           expired  == CountStatus(insurance_policies, {"expiry_date"}, "expired")
           expiring == CountStatus(insurance_policies, {"expiry_date"}, "expiring_soon")
       IN  resp' = [op |-> "insurance_summary", ok |-> TRUE, at |-> now,
                    total |-> total, expired |-> expired, expiring_soon |-> expiring,
                    compliant |-> total - expired - expiring,
                    total_premium |-> SumOf(insurance_policies, "premium")]
    /\ UNCHANGED <<fleet, office, accounts, fuel_entries, seq, now, calls>>

\* The bodies posted to /api/compliance and /api/insurance before a summary:
\* documents past their date, near it, far from it, and without a date.
SummaryBodies ==
    { [driver_id |-> 1, cdl_expiry |-> Some(20260215), medical_card_expiry |-> Some(20260220)],
      [driver_id |-> 1, cdl_expiry |-> Some(20260215)],
      [driver_id |-> 2, cdl_expiry |-> Some(20260220), medical_card_expiry |-> Some(20260401)],
      [driver_id |-> 2, cdl_expiry |-> Some(20260401)],
      [driver_id |-> 3] }

InsuranceBodies ==
    { [truck_number |-> "TRK-001", policy_number |-> "P-1", premium |-> 120050,
       expiry_date |-> d] : d \in {0, 20260215, 20260220, 20260401} }

-----------------------------------------------------------------------------
(* Accounts *)

\* hashlib.sha256(password).hexdigest(), on the passwords of the model: no
\* digest is the empty string, and different passwords have different digests.
hash_password(password) ==
    CASE password = ""    -> "sha256:e3b0c442"
      [] password = "pw1" -> "sha256:c0c4a69b"
      [] password = "pw2" -> "sha256:6b09d5cb"

TrialDays == 14

\* POST /api/auth/signup.  Both emails are UNIQUE; an INSERT that fails has
\* still drawn its id from the sequence.
company_signup(data) ==
    /\ calls.company_signup < MaxSignups
    /\ calls' = [calls EXCEPT !.company_signup = @ + 1]
    /\ LET company == [id |-> seq.companies, company_name |-> data.company_name,
                       dot_number |-> data.dot_number, email |-> data.email,
                       trial_ends_at |-> Some(now + TrialDays * TicksPerDay),
                       is_subscribed |-> 0]
           user    == [id |-> seq.users, company_id |-> company.id,
                       full_name |-> data.full_name, email |-> data.email,
                       password_hash |-> hash_password(data.password),
                       role |-> "manager", invite_token |-> NULL, is_active |-> 1,
                       created_at |-> now]
           refused == HttpError("company_signup", 400, "Email already registered")
                          @@ [email |-> data.email]
       IN  IF \E c \in companies : c.email = data.email
           THEN /\ resp' = refused
                /\ seq' = [seq EXCEPT !.companies = @ + 1]
                /\ UNCHANGED <<companies, users>>
           ELSE IF \E u \in users : u.email = data.email
           THEN /\ resp' = refused
                /\ seq' = [seq EXCEPT !.companies = @ + 1, !.users = @ + 1]
                /\ companies' = Rollback(companies, {company})
                /\ UNCHANGED users
           ELSE /\ companies' = companies \cup {company}
                /\ users' = users \cup {user}
                /\ seq' = [seq EXCEPT !.companies = @ + 1, !.users = @ + 1]
                /\ resp' = [op |-> "company_signup", ok |-> TRUE, email |-> data.email,
                            user_id |-> user.id, company_id |-> company.id,
                            role |-> "manager", full_name |-> data.full_name,
                            company_name |-> data.company_name]
    /\ UNCHANGED <<fleet, office, fuel_entries, now, seen>>

\* POST /api/auth/invite: token is secrets.token_urlsafe(32).  company_id is
\* not checked against companies.
invite_driver(data, token) ==
    /\ calls.invite_driver < MaxInvites
    /\ calls' = [calls EXCEPT !.invite_driver = @ + 1]
    /\ seq' = [seq EXCEPT !.users = @ + 1]
    /\ IF \E u \in users : u.email = data.email
       THEN /\ resp' = HttpError("invite_driver", 400, "Email already exists")
                           @@ [email |-> data.email]
            /\ UNCHANGED users
       ELSE /\ users' = users \cup
                   {[id |-> seq.users, company_id |-> data.company_id,
                     full_name |-> data.full_name, email |-> data.email,
                     password_hash |-> "", role |-> "driver",
                     invite_token |-> Some(token), is_active |-> 0,
                     created_at |-> now]}
            /\ resp' = [op |-> "invite_driver", ok |-> TRUE, email |-> data.email,
                        invite_token |-> token]
    /\ UNCHANGED <<fleet, office, companies, fuel_entries, now, seen>>

\* The bodies posted to /api/auth/signup and /api/auth/invite, and the tokens drawn.
SignupBodies ==
    { [company_name |-> "Acme Freight", dot_number |-> "", email |-> e,
       password |-> pw, full_name |-> "Ann Lee"] :
        e \in {"ann@acme.test", "bob@acme.test"}, pw \in {"pw1", "pw2"} }

InviteBodies ==
    { [email |-> e, full_name |-> "Bob Ray", company_id |-> c] :
        e \in {"ann@acme.test", "bob@acme.test"}, c \in Companies }

Tokens == {"tok-1", "tok-2"}

\* The token of the next invite: secrets.token_urlsafe(32) draws 256 random
\* bits, a value no earlier invite has drawn.
FreshToken ==
    CASE calls.invite_driver = 0 -> "tok-1"
      [] calls.invite_driver = 1 -> "tok-2"
      [] OTHER                   -> "tok-3"

\* A login that compares the email only.
LoginMatch_EmailOnly(u, data) ==
    /\ u.email = data.email
    /\ \E co \in companies : co.id = u.company_id

\* users JOIN companies WHERE u.email = email AND u.password_hash = hash
LoginMatch(u, data) ==
    /\ u.email = data.email
    /\ u.password_hash = hash_password(data.password)
    /\ \E co \in companies : co.id = u.company_id

\* POST /api/auth/login
login(data) ==
    /\ LET found == {u \in users : LoginMatch(u, data)}
       IN  IF found = {}
           THEN resp' = HttpError("login", 401, "Invalid email or password")
                            @@ [email |-> data.email, password |-> data.password]
           ELSE LET user == CHOOSE u \in found : TRUE
                IN  resp' = [op |-> "login", ok |-> TRUE, email |-> data.email,
                             password |-> data.password, user_id |-> user.id,
                             company_id |-> user.company_id, full_name |-> user.full_name,
                             role |-> user.role]
    /\ UNCHANGED <<fleet, office, accounts, fuel_entries, seq, now, calls, seen>>

\* An accept_invite that leaves the token in place.
Accepted_TokenKept(u, data) ==
    [u EXCEPT !.password_hash = hash_password(data.password),
              !.full_name = data.full_name, !.is_active = 1]

\* UPDATE users SET password_hash, full_name, is_active=1, invite_token=NULL
Accepted(u, data) ==
    [u EXCEPT !.password_hash = hash_password(data.password),
              !.full_name = data.full_name, !.is_active = 1, !.invite_token = NULL]

\* POST /api/auth/accept-invite.  The UPDATE is committed before the response
\* is built; building it raises when the user's company does not exist.
accept_invite(data) ==
    /\ calls.accept_invite < MaxAccepts
    /\ calls' = [calls EXCEPT !.accept_invite = @ + 1]
    /\ LET found == {u \in users : u.invite_token = Some(data.token) /\ u.email = data.email}
       IN  IF found = {}
           THEN /\ resp' = HttpError("accept_invite", 400, "Invalid or expired invite link")
                               @@ [token |-> data.token, email |-> data.email]
                /\ UNCHANGED users
           ELSE LET user == CHOOSE u \in found : TRUE
                IN  /\ users' = (users \ {user}) \cup {Accepted(user, data)}
                    /\ IF \E co \in companies : co.id = user.company_id
                       THEN resp' = [op |-> "accept_invite", ok |-> TRUE,
                                     token |-> data.token, email |-> data.email,
                                     password |-> data.password, user_id |-> user.id,
                                     company_id |-> user.company_id,
                                     full_name |-> data.full_name, role |-> user.role]
                       ELSE resp' = ServerError("accept_invite")
                                        @@ [token |-> data.token, email |-> data.email,
                                            password |-> data.password, user_id |-> user.id]
    /\ UNCHANGED <<fleet, office, companies, fuel_entries, seq, now, seen>>

\* A make_superadmin that does not look at the secret.
SecretOk_Any(secret) == TRUE

\* secret == "FREIGHTQUICK-SUPER-2026"
SecretOk(secret) == secret = Some("FREIGHTQUICK-SUPER-2026")

\* POST /api/auth/make-superadmin: data is a dict, a missing key reads as None.
make_superadmin(data) ==
    /\ calls.make_superadmin < MaxGrants
    /\ calls' = [calls EXCEPT !.make_superadmin = @ + 1]
    /\ LET secret == IF "secret" \in DOMAIN data THEN data.secret ELSE NULL
           email  == IF "email" \in DOMAIN data THEN data.email ELSE NULL
       IN  IF ~SecretOk(secret)
           THEN /\ resp' = HttpError("make_superadmin", 403, "Invalid secret")
                               @@ [secret |-> secret, email |-> email]
                /\ UNCHANGED users
           ELSE /\ users' = { IF Some(u.email) = email THEN [u EXCEPT !.role = "superadmin"]
                              ELSE u : u \in users }
                /\ resp' = [op |-> "make_superadmin", ok |-> TRUE,
                            secret |-> secret, email |-> email]
    /\ UNCHANGED <<fleet, office, companies, fuel_entries, seq, now, seen>>

\* GET /api/trial/status/{company_id}.  (trial_ends - datetime.now()).days is
\* the floor of the difference in days.
trial_status(company_id) ==
    /\ LET found == {co \in companies : co.id = company_id}
       IN  IF found = {}
           THEN resp' = HttpError("trial_status", 404, "Company not found")
                            @@ [company_id |-> company_id, at |-> now]
           ELSE LET company   == CHOOSE co \in found : TRUE
                    answer(status, days) ==
                        [op |-> "trial_status", ok |-> TRUE, company_id |-> company_id,
                         at |-> now, status |-> status, days_left |-> days]
                    days_left == (Val(company.trial_ends_at) - now) \div TicksPerDay
                IN  IF company.is_subscribed # 0
                    THEN resp' = answer("subscribed", NULL)
                    ELSE IF ~IsNull(company.trial_ends_at)
                    THEN IF days_left > 0
                         THEN resp' = answer("trial", Some(days_left))
                         ELSE resp' = answer("expired", Some(0))
                    ELSE resp' = answer("trial", Some(TrialDays))
    /\ UNCHANGED <<fleet, office, accounts, fuel_entries, seq, now, calls, seen>>

\* The credentials posted to /api/auth/login and /api/auth/accept-invite.
Emails == {"ann@acme.test", "bob@acme.test"}

LoginBodies == { [email |-> e, password |-> pw] : e \in Emails, pw \in {"", "pw1", "pw2"} }

AcceptBodies ==
    { [token |-> t, email |-> e, full_name |-> "Bob Ray", password |-> pw] :
        t \in Tokens, e \in Emails, pw \in {"", "pw2"} }

GrantBodies ==
    { [secret |-> s, email |-> Some(e)] :
        s \in {Some("FREIGHTQUICK-SUPER-2026"), Some("guess"), NULL}, e \in Emails } \cup
    { [email |-> Some("ann@acme.test")], [secret |-> Some("FREIGHTQUICK-SUPER-2026")] }

-----------------------------------------------------------------------------
(* Analytics.  Percentages are in tenths of a percent, miles in hundredths  *)
(* (in tenths once rounded for display), money in cents.                    *)

\* Entries of daily_trend: range(13,-1,-1).
TrendDays == 14

\* The rate column of loads, in cents.  get_analytics reads it for delivered
\* loads only; no handler sets the status 'delivered', so the only rate ever
\* read is that of the seeded load 010202-320.
rate(load) == IF load.load_number = "010202-320" THEN 89000 ELSE 0

RECURSIVE SumRates(_)
SumRates(rows) ==
    IF rows = {} THEN 0
    ELSE LET r == CHOOSE x \in rows : TRUE
         IN  Val(r.on_time_rate) + SumRates(rows \ {r})

RECURSIVE SumRevenue(_)
SumRevenue(rows) ==
    IF rows = {} THEN 0
    ELSE LET r == CHOOSE x \in rows : TRUE
         IN  rate(r) + SumRevenue(rows \ {r})

\* A utilization that is the share of available drivers.
Utilization_Available(total_drivers, available_drivers) ==
    RoundDiv(available_drivers * 1000, IF total_drivers > 1 THEN total_drivers ELSE 1)

\* round((total_drivers-available_drivers)/max(total_drivers,1)*100,1)
Utilization(total_drivers, available_drivers) ==
    RoundDiv((total_drivers - available_drivers) * 1000,
             IF total_drivers > 1 THEN total_drivers ELSE 1)

\* The summary of get_analytics.  AVG skips null rates and is null over none.
Summary ==
    LET total_drivers     == Cardinality(drivers)
        available_drivers == Cardinality({d \in drivers : d.status = "available"})
        rated             == {d \in drivers : ~IsNull(d.on_time_rate)}
    IN  [total_drivers |-> total_drivers,
         available_drivers |-> available_drivers,
         utilization_rate |-> Utilization(total_drivers, available_drivers),
         active_loads |-> Cardinality({l \in loads :
                               l.status \in {"available", "assigned", "in_transit"}}),
         active_assignments |-> Cardinality({a \in assignments : a.status = "active"}),
         total_revenue |-> SumRevenue({l \in loads : l.status = "delivered"}),
         avg_on_time_rate |-> IF rated = {} THEN 0
                              ELSE RoundDiv(SumRates(rated), Cardinality(rated)),
         total_miles |-> RoundDiv(SumOf(routes, "total_miles"), 10),
         total_fuel_cost |-> SumOf(routes, "fuel_cost")]

\* Outcomes of the random draws of daily_trend: round(random.uniform(18000,
\* 42000),0), random.randint(4,14), random.randint(2000,6000) for each day.
TrendDraws ==
    LET lo == [revenue |-> 18000, loads |-> 4, miles |-> 2000]
        hi == [revenue |-> 42000, loads |-> 14, miles |-> 6000]
    IN  { [i \in 1..TrendDays |-> IF i \in hs THEN hi ELSE lo] :
            hs \in {{}, {1}, 1..TrendDays} }

\* strftime("%m/%d") of the day `back` days before today, as the number mmdd.
TrendDate(back) == CivilDate(Today - back) % 10000

\* GET /api/analytics (the driver_utilization list, grouped by a column the
\* model does not carry, is left out of the response).
get_analytics(draw) ==
    /\ resp' = [op |-> "get_analytics", ok |-> TRUE, at |-> now,
                summary |-> Summary,
                daily_trend |-> [i \in 1..TrendDays |->
                                    [date |-> TrendDate(TrendDays - i)] @@ draw[i]]]
    /\ UNCHANGED <<fleet, office, accounts, fuel_entries, seq, now, calls, seen>>

-----------------------------------------------------------------------------
(* The store after init_db, at the start of the run *)

Init ==
    /\ drivers = SeedDrivers
    /\ loads = SeedLoads
    /\ assignments = {}
    /\ routes = {}
    /\ vehicle_miles = {}
    /\ compliance = {}
    /\ pay_records = {}
    /\ insurance_policies = {}
    /\ companies = {}
    /\ users = {}
    /\ fuel_entries = {}
    /\ seq = [drivers |-> 12, loads |-> 10, assignments |-> 1, routes |-> 1,
              vehicle_miles |-> 1, compliance |-> 1, pay_records |-> 1,
              insurance_policies |-> 1, companies |-> 1, users |-> 1,
              fuel_entries |-> 1]
    /\ now = StartDay * TicksPerDay
    /\ calls = [create_load |-> 0, create_assignment |-> 0, optimize_route |-> 0,
                create_driver |-> 0, update_driver |-> 0, create_compliance |-> 0,
                create_pay_record |-> 0, add_miles |-> 0, add_fuel |-> 0,
                company_signup |-> 0, invite_driver |-> 0, accept_invite |-> 0,
                make_superadmin |-> 0, create_insurance |-> 0,
                update_load |-> 0]
    /\ resp = [op |-> "startup", ok |-> TRUE]
    /\ seen = <<>>

-----------------------------------------------------------------------------
(* Dispatch: loads are created and assigned *)

Next ==
    \/ \E n \in NewLoadNumbers, p \in NewLoadPlaces, m \in NewLoadMiles :
          create_load(n, p, m)
    \/ \E d \in AssignDriverIds, l \in AssignLoadIds, t \in AssignMatchTypes,
          s \in RandomScores, r \in RandomMatchTypes :
          create_assignment(d, l, t, s, r)

Spec == Init /\ [][Next]_vars

-----------------------------------------------------------------------------
(* Routing: the routes of assigned loads are optimized *)

NextRoutes ==
    \/ \E m \in NewLoadMiles :
          create_load("NEW-1", <<"Toronto, ON", "Detroit, MI">>, m)
    \/ \E l \in AssignLoadIds :
          create_assignment(1, l, NULL, 80, match_types[1])
    \/ \E a \in 1..(MaxAssignments + 1), real \in RouteServiceOutcomes, p \in RandomSavings :
          optimize_route(a, real, p)

SpecRoutes == Init /\ [][NextRoutes]_vars

-----------------------------------------------------------------------------
(* Matching: drivers are created and updated, candidates are matched *)

\* The body of an update_driver request for driver `id`: the required fields
\* as the row has them (or another driver's username), and the optional ones.
UpdateBodies(id) ==
    UNION { { [username |-> u, full_name |-> d.full_name] @@ s @@ r :
                u \in {d.username, "IGRAU"}, s \in UpdateStatus, r \in UpdateRate }
            : d \in {x \in drivers : x.id = id} }

NextMatch ==
    \/ \E u \in NewUsernames : create_driver(u, "available")
    \/ \E id \in UpdateDriverIds : \E b \in UpdateBodies(id) : update_driver(id, b)
    \/ \E l \in {1, 10} : match_drivers(l)

SpecMatch == Init /\ [][NextMatch]_vars

-----------------------------------------------------------------------------
(* Tenants read the dispatch board.  A request carries its tenant's         *)
(* company_id wherever the endpoint has that parameter.                    *)

NextTenant ==
    \/ \E d \in AssignDriverIds, l \in AssignLoadIds :
          create_assignment(d, l, NULL, 80, match_types[1])
    \/ \E c \in Companies, s \in {NULL, Some("available")} : get_drivers(c, s, Some(c))
    \/ \E c \in Companies, s \in {NULL, Some("available")} : get_loads(c, s, Some(c))
    \/ \E c \in Companies : get_assignments(c)
    \/ \E c \in Companies : get_routes(c)

SpecTenant == Init /\ [][NextTenant]_vars

-----------------------------------------------------------------------------
(* Compliance: records are saved and read while the clock runs *)

NextCompliance ==
    \/ Tick
    \/ \E b \in ComplianceBodies : create_compliance(b)
    \/ get_compliance /\ UNCHANGED seen

SpecCompliance == Init /\ [][NextCompliance]_vars

-----------------------------------------------------------------------------
(* TruckPay: pay records are created and read *)

NextPay ==
    \/ \E b \in PayBodies : create_pay_record(b)
    \/ \E d \in PayDriverIds : get_pay_records(d) /\ UNCHANGED seen

SpecPay == Init /\ [][NextPay]_vars

-----------------------------------------------------------------------------
(* IFTA: miles and fuel are recorded and reported *)

NextIfta ==
    \/ \E b \in MilesBodies : add_miles(b)
    \/ \E b \in FuelBodies : add_fuel(b)
    \/ \E q \in ReportQuarters : ifta_report(1, q, ReportYear) /\ UNCHANGED seen

SpecIfta == Init /\ [][NextIfta]_vars

-----------------------------------------------------------------------------
(* Derived fields: the reads that compute them, repeated while the clock    *)
(* runs and records are added; seen keeps a response to compare with.       *)

Remember == seen' = <<resp'>>

NextDerived ==
    \/ Tick
    \/ create_compliance([driver_id |-> 1, cdl_expiry |-> Some(20260216)])
    \/ create_pay_record([driver_id |-> 1, week_ending |-> 20260214, gross_pay |-> 1234565,
                          fuel_deduction |-> Some(100009)])
    \/ add_miles([company_id |-> 1, vehicle |-> 7, driver_name |-> "Ivan Grau",
                  state |-> "TX", miles |-> 10000, trip_date |-> 20260216])
    \/ add_fuel([company_id |-> 1, vehicle |-> 7, state |-> "TX", gallons |-> 300000,
                 price_per_gallon |-> 3499, fuel_date |-> 20260216])
    \/ get_compliance /\ (Remember \/ UNCHANGED seen)
    \/ get_pay_records(NULL) /\ (Remember \/ UNCHANGED seen)
    \/ ifta_report(1, 1, ReportYear) /\ (Remember \/ UNCHANGED seen)

SpecDerived == Init /\ [][NextDerived]_vars

-----------------------------------------------------------------------------
(* Accounts: companies sign up and invite drivers *)

NextAuth ==
    \/ \E b \in SignupBodies : company_signup(b)
    \/ \E b \in InviteBodies, t \in Tokens : invite_driver(b, t)

SpecAuth == Init /\ [][NextAuth]_vars

-----------------------------------------------------------------------------
(* Login: a company signs up, invites a driver, the invite is accepted, and *)
(* users log in                                                             *)

NextLogin ==
    \/ company_signup([company_name |-> "Acme Freight", dot_number |-> "",
                       email |-> "ann@acme.test", password |-> "pw1",
                       full_name |-> "Ann Lee"])
    \/ \E c \in Companies :
          invite_driver([email |-> "bob@acme.test", full_name |-> "Bob Ray",
                         company_id |-> c], FreshToken)
    \/ \E b \in AcceptBodies : accept_invite(b)
    \/ \E b \in LoginBodies : login(b)

SpecLogin == Init /\ [][NextLogin]_vars

-----------------------------------------------------------------------------
(* Invites over time: a driver is invited and the link is followed at once, *)
(* days later or weeks later                                                *)

NextInvite ==
    \/ company_signup([company_name |-> "Acme Freight", dot_number |-> "",
                       email |-> "ann@acme.test", password |-> "pw1",
                       full_name |-> "Ann Lee"])
    \/ invite_driver([email |-> "bob@acme.test", full_name |-> "Bob Ray",
                      company_id |-> 1], FreshToken)
    \/ \E t \in SleepTicks \ {1} : Sleep(t)
    \/ \E b \in AcceptBodies : accept_invite(b)

SpecInvite == Init /\ [][NextInvite]_vars

-----------------------------------------------------------------------------
(* The trial: a company signs up and its trial status is read as time passes *)

NextTrial ==
    \/ company_signup([company_name |-> "Acme Freight", dot_number |-> "",
                       email |-> "ann@acme.test", password |-> "pw1",
                       full_name |-> "Ann Lee"])
    \/ \E t \in SleepTicks : Sleep(t)
    \/ \E c \in 1..MaxSignups : trial_status(c)

SpecTrial == Init /\ [][NextTrial]_vars

-----------------------------------------------------------------------------
(* Roles: users are created by signup and invite, and make_superadmin is    *)
(* called with and without the secret                                       *)

NextAdmin ==
    \/ company_signup([company_name |-> "Acme Freight", dot_number |-> "",
                       email |-> "ann@acme.test", password |-> "pw1",
                       full_name |-> "Ann Lee"])
    \/ invite_driver([email |-> "bob@acme.test", full_name |-> "Bob Ray",
                      company_id |-> 1], FreshToken)
    \/ \E b \in AcceptBodies : accept_invite(b)
    \/ \E b \in GrantBodies : make_superadmin(b)

SpecAdmin == Init /\ [][NextAdmin]_vars

-----------------------------------------------------------------------------
(* Analytics: the dashboard is read while loads are dispatched, drivers are *)
(* updated and days pass                                                    *)

NextAnalytics ==
    \/ \E d \in AssignDriverIds, l \in AssignLoadIds :
          create_assignment(d, l, Some("MANUAL"), 80, match_types[1])
    \/ \E id \in UpdateDriverIds : \E b \in UpdateBodies(id) : update_driver(id, b)
    \/ Tick
    \/ \E draw \in TrendDraws : get_analytics(draw)

SpecAnalytics == Init /\ [][NextAnalytics]_vars

-----------------------------------------------------------------------------
(* Quarterly reports: miles and fuel of two companies are logged through    *)
(* the year and each quarter of each company is reported                    *)

NextQuarters ==
    \/ \E b \in QuarterMilesBodies : add_miles(b)
    \/ \E b \in QuarterFuelBodies : add_fuel(b)
    \/ \E c \in Companies, q \in 1..5 : ifta_report(c, q, ReportYear) /\ UNCHANGED seen

SpecQuarters == Init /\ [][NextQuarters]_vars

-----------------------------------------------------------------------------
(* The export: a quarter is reported and exported while miles and fuel are  *)
(* logged                                                                   *)

NextExport ==
    \/ \E b \in MilesBodies : add_miles(b)
    \/ \E b \in FuelBodies : add_fuel(b)
    \/ \E q \in ReportQuarters : ifta_report(1, q, ReportYear) /\ UNCHANGED seen
    \/ \E q \in ReportQuarters : ifta_export(1, q, ReportYear) /\ UNCHANGED seen

SpecExport == Init /\ [][NextExport]_vars

-----------------------------------------------------------------------------
(* Summaries: compliance records and insurance policies are saved and       *)
(* counted by status while the clock runs                                   *)

NextSummary ==
    \/ Tick
    \/ \E b \in SummaryBodies : create_compliance(b)
    \/ \E b \in InsuranceBodies : create_insurance(b)
    \/ compliance_summary /\ UNCHANGED seen
    \/ insurance_summary /\ UNCHANGED seen

SpecSummary == Init /\ [][NextSummary]_vars

-----------------------------------------------------------------------------
(* Pay totals: pay records are created, listed and summed up *)

NextPaySummary ==
    \/ \E b \in PayBodies : create_pay_record(b)
    \/ get_pay_records(NULL) /\ UNCHANGED seen
    \/ pay_summary /\ UNCHANGED seen

SpecPaySummary == Init /\ [][NextPaySummary]_vars

-----------------------------------------------------------------------------
(* Ownership: tenants create and update drivers and loads, sending their    *)
(* company_id in the body, and read them back filtered by company_id        *)

NextOwner ==
    \/ create_driver("NEWDRV", "available")
    \/ create_load("NEW-1", <<"Toronto, ON", "Detroit, MI">>, Some(100))
    \/ \E id \in {12}, c \in Companies \ {1} :
          \E d \in {x \in drivers : x.id = id} : \E u \in {d.username, "IGRAU"} :
             update_driver(id, [username |-> u, full_name |-> d.full_name,
                                status |-> "off_duty", company_id |-> c])
    \/ \E id \in {10}, c \in Companies \ {1} :
          \E l \in {x \in loads : x.id = id} : \E n \in {l.load_number, "010192-206"} :
             update_load(id, [load_number |-> n, origin |-> l.origin,
                              destination |-> l.destination, status |-> "cancelled",
                              company_id |-> c])
    \/ create_assignment(12, 10, NULL, 80, match_types[1])
    \/ \E c \in 0..MaxCompany, st \in {NULL, Some("available")} :
          get_drivers(c, st, Some(c)) /\ UNCHANGED seen
    \/ \E c \in 0..MaxCompany, st \in {NULL, Some("available")} :
          get_loads(c, st, Some(c)) /\ UNCHANGED seen

SpecOwner == Init /\ [][NextOwner]_vars

-----------------------------------------------------------------------------
(* Claims *)

DriverExists(id) == \E d \in drivers : d.id = id

LoadExists(id) == \E l \in loads : l.id = id

\* C1: a successful create_assignment(d, l) on an existing driver d and an
\* existing load l adds a new assignments row pairing d with l, leaves driver d
\* 'on_load' and load l 'assigned' to d, and leaves exactly one routes row for
\* the new assignment, whose total_miles is the load's miles.
C1_CreateAssignmentEffect ==
    [][ ( /\ resp' # resp
          /\ resp'.op = "create_assignment"
          /\ resp'.ok
          /\ DriverExists(resp'.driver_id)
          /\ LoadExists(resp'.load_id) )
        => LET id == resp'.id
               d  == resp'.driver_id
               l  == resp'.load_id
           IN  /\ \A a \in assignments : a.id # id
               /\ Cardinality({a \in assignments' : a.id = id}) = 1
               /\ \A a \in assignments' : a.id = id => a.driver_id = d /\ a.load_id = l
               /\ \A x \in drivers' : x.id = d => x.status = "on_load"
               /\ \A x \in loads' :
                     x.id = l => x.status = "assigned" /\ x.assigned_driver_id = Some(d)
               /\ Cardinality({r \in routes' : r.assignment_id = id}) = 1
               /\ \A r \in routes' : r.assignment_id = id =>
                     \A x \in loads' : x.id = l => x.miles = Some(r.total_miles)
      ]_vars

\* C1 witness: a create_assignment of an existing driver and the created load of
\* 100.55 miles has succeeded.
C1_Witness ==
    /\ resp.op = "create_assignment"
    /\ resp.ok
    /\ DriverExists(resp.driver_id)
    /\ \E l \in loads : l.id = resp.load_id /\ l.miles = Some(10055)

\* The company a returned row belongs to: its own company_id, or that of the
\* driver of its assignment.
AssignmentCompany(a) == (CHOOSE d \in drivers : d.id = a.driver_id).company_id

RowCompany(op, row) ==
    CASE op \in {"get_drivers", "get_loads"} -> row.company_id
      [] op = "get_assignments" -> AssignmentCompany(row)
      [] op = "get_routes" ->
            AssignmentCompany(CHOOSE a \in assignments : a.id = row.assignment_id)

\* C2: a response produced for company A never contains a record of another
\* company.
C2_TenantScoped ==
    resp.op \in {"get_drivers", "get_loads", "get_assignments", "get_routes"}
        => \A row \in resp.rows : RowCompany(resp.op, row) = resp.tenant

\* The routes row of the assignment of the last optimize_route, as stored now.
StoredRoute == CHOOSE r \in routes : r.assignment_id = resp.assignment_id

OptimizeDone == resp.op = "optimize_route" /\ resp.ok

\* C8 as claimed: after optimize_route the stored total_miles is the service's
\* mileage (real_route = true), or else the previous value reduced by between 3%
\* and 8% (real_route = false); savings_miles = previous - new and the stored
\* fuel_cost = 0.43 x new total_miles, exactly.
C8_OptimizeExact ==
    OptimizeDone =>
        LET prev == resp.route.total_miles
            new  == StoredRoute.total_miles
        IN  /\ resp.total_miles = new
            /\ resp.service # NULL => resp.real_route /\ new = Val(resp.service).miles
            /\ resp.service = NULL =>
                  /\ ~resp.real_route
                  /\ 100 * new >= 92 * prev
                  /\ 100 * new <= 97 * prev
            /\ 10 * resp.savings_miles = prev - new
            /\ 100 * StoredRoute.fuel_cost = 43 * new

\* C8 as amended: the same, with the roundings of the code: the reduced mileage
\* is rounded to one decimal, savings_miles to one decimal and fuel_cost to two
\* (each within half a unit of its last digit of the exact value).
C8_OptimizeRounded ==
    OptimizeDone =>
        LET prev == resp.route.total_miles
            new  == StoredRoute.total_miles
        IN  /\ resp.total_miles = new
            /\ resp.service # NULL => resp.real_route /\ new = Val(resp.service).miles
            /\ resp.service = NULL =>
                  /\ ~resp.real_route
                  /\ prev >= 0
                  /\ new % 10 = 0
                  /\ 100 * new >= 92 * prev - 500
                  /\ 100 * new <= 97 * prev + 500
            /\ Abs(10 * resp.savings_miles - (prev - new)) <= 5
            /\ Abs(100 * StoredRoute.fuel_cost - 43 * new) <= 50

\* C8 witness: the fallback ran on a route of 1.0 mile, and rounding to one
\* decimal left it at 1.0 mile.
C8_Witness ==
    /\ OptimizeDone
    /\ resp.service = NULL
    /\ resp.route.total_miles = 100
    /\ StoredRoute.total_miles = 100

MatchDone == resp.op = "match_drivers" /\ resp.ok

\* The stored row of a matched driver.
StoredDriver(m) == CHOOSE d \in drivers : d.id = m.driver.id

\* What match_drivers says of its candidates apart from the score bound: at
\* most 5, each stored 'available', none with a lower on_time_rate than an
\* available driver left out, in non-increasing match_score order.
MatchCandidatesOk ==
    MatchDone =>
        LET ms == resp.matches
            in == {ms[i].driver.id : i \in 1..Len(ms)}
        IN  /\ Len(ms) <= 5
            /\ Cardinality(in) = Len(ms)
            /\ Len(ms) = Min(5, Cardinality({d \in drivers : d.status = "available"}))
            /\ \A i \in 1..Len(ms) :
                  /\ \E d \in drivers : d.id = ms[i].driver.id
                  /\ StoredDriver(ms[i]) = ms[i].driver
                  /\ StoredDriver(ms[i]).status = "available"
                  /\ \A d \in drivers :
                        (d.status = "available" /\ d.id \notin in) =>
                            /\ ~IsNull(d.on_time_rate)
                            /\ Val(d.on_time_rate) <= Val(ms[i].driver.on_time_rate)
            /\ \A i, j \in 1..Len(ms) : i < j => ms[i].match_score >= ms[j].match_score

\* match_drivers writes nothing.
MatchWritesNothing ==
    (resp' # resp /\ resp'.op = "match_drivers") =>
        UNCHANGED <<fleet, office, accounts, fuel_entries, seq>>

StatusByDate(expiry_date, at) ==
    IF IsNull(expiry_date) \/ ~IsDate(Val(expiry_date)) THEN "missing"
    ELSE IF DayCount(Val(expiry_date)) < at \div TicksPerDay THEN "expired"
    ELSE IF DayCount(Val(expiry_date)) <= at \div TicksPerDay + 30 THEN "expiring_soon"
    ELSE "ok"

\* C3: every status get_compliance returns is 'missing' for an absent or
\* unparseable expiry, 'expired' for an expiry date before the current date,
\* 'expiring_soon' for one from the current date to 30 days after it, and 'ok'
\* for a later one.
C3_StatusByDate ==
    resp.op = "get_compliance" =>
        \A rec \in resp.records :
            /\ rec.derived.cdl_status = StatusByDate(rec.row.cdl_expiry, resp.at)
            /\ rec.derived.medical_status = StatusByDate(rec.row.medical_card_expiry, resp.at)
            /\ rec.derived.inspection_status
                  = StatusByDate(rec.row.annual_inspection_expiry, resp.at)
            /\ rec.derived.drug_test_status = StatusByDate(rec.row.drug_test_date, resp.at)

ComplianceSaved == resp'.op = "create_compliance" /\ seq'.compliance # seq.compliance

\* The value a compliance field takes from a request body, NULL when left out.
Submitted(body, field) == IF field \in DOMAIN body THEN body[field] ELSE NULL

\* The row create_compliance leaves for the driver of the body, its notes given.
SavedAs(body, notes) ==
    LET mine == {r \in compliance' : r.driver_id = body.driver_id}
        old  == {r \in compliance : r.driver_id = body.driver_id}
    IN  /\ Cardinality(mine) = 1
        /\ \A r \in mine :
              /\ \A f \in ComplianceDateFields : r[f] = Submitted(body, f)
              /\ r.notes = notes
              /\ \A o \in old : r.id = o.id
        /\ {r \in compliance' : r.driver_id # body.driver_id}
              = {r \in compliance : r.driver_id # body.driver_id}
        /\ Cardinality(compliance') = Cardinality(compliance) + (IF old = {} THEN 1 ELSE 0)

OnePerDriver == \A r1, r2 \in compliance : r1.driver_id = r2.driver_id => r1 = r2

SameBodyAgain == resp.op = "create_compliance" /\ resp.body = resp'.body

\* C9 as claimed: at most one compliance record per driver_id; create_compliance
\* inserts the record of a driver that has none and otherwise replaces the date
\* fields and notes by the submitted values, a field left out becoming null;
\* submitting the same record again changes nothing.
C9_UpsertNullsOmitted ==
    /\ []OnePerDriver
    /\ [][ComplianceSaved =>
            /\ SavedAs(resp'.body, Submitted(resp'.body, "notes"))
            /\ SameBodyAgain => compliance' = compliance]_vars

\* C9 as amended: the same, notes left out becoming the empty string, and the
\* second submission leaving the rows as they are while the id sequence advances.
C9_UpsertDefaults ==
    /\ []OnePerDriver
    /\ [][ComplianceSaved =>
            /\ SavedAs(resp'.body, IF "notes" \in DOMAIN resp'.body
                                   THEN resp'.body.notes ELSE Some(""))
            /\ SameBodyAgain => compliance' = compliance
            /\ seq'.compliance = seq.compliance + 1]_vars

\* C9 witness: the second submission for driver 1 left one record, under the
\* id of the first, holding the submitted date, null dates and empty notes.
C9_Witness ==
    /\ resp.op = "create_compliance"
    /\ calls.create_compliance = 2
    /\ seq.compliance = 3
    /\ resp.body = [driver_id |-> 1, cdl_expiry |-> Some(20260319)]
    /\ compliance = {[id |-> 1, driver_id |-> 1, cdl_expiry |-> Some(20260319),
                      medical_card_expiry |-> NULL, mvr_date |-> NULL,
                      drug_test_date |-> NULL, annual_inspection_expiry |-> NULL,
                      notes |-> Some("")]}

PayRead == resp.op = "get_pay_records" /\ resp.ok

\* The stored row of a returned pay record.
StoredPay(rec) == {p \in pay_records : p.id = rec.row.id}

\* What get_pay_records says of total_deductions and of the stored rows.
PayDeductionsOk ==
    PayRead =>
        \A rec \in resp.records :
            /\ rec.derived.total_deductions
                  = rec.row.fuel_deduction[1] + rec.row.insurance_deduction[1]
                        + rec.row.advance_deduction[1] + rec.row.other_deduction[1]
            /\ \A p \in StoredPay(rec) : \A f \in DOMAIN p : p[f] = rec.row[f]
            /\ StoredPay(rec) # {}

PayReadWritesNothing ==
    (resp' # resp /\ resp'.op = "get_pay_records") =>
        UNCHANGED <<fleet, office, accounts, fuel_entries, seq>>

\* C5 as claimed: every record get_pay_records returns has total_deductions the
\* sum of the four deductions of the stored row and net_pay equal to gross_pay
\* minus total_deductions, and the read modifies no stored row.
C5_NetPayExact ==
    /\ [](/\ PayDeductionsOk
          /\ PayRead =>
                \A rec \in resp.records :
                    10 * rec.derived.net_pay
                        = rec.row.gross_pay - rec.derived.total_deductions)
    /\ [][PayReadWritesNothing]_vars

\* C5 as amended: the same, net_pay being gross_pay minus total_deductions
\* rounded to the cent.
C5_NetPayRounded ==
    /\ [](/\ PayDeductionsOk
          /\ PayRead =>
                \A rec \in resp.records :
                    Abs(10 * rec.derived.net_pay
                            - (rec.row.gross_pay - rec.derived.total_deductions)) <= 5)
    /\ [][PayReadWritesNothing]_vars

\* C5 witness: a read returned two records, one of gross pay 1234.565 and a
\* deduction of 100.009 whose net pay is 1134.56.
C5_Witness ==
    /\ PayRead
    /\ Cardinality(resp.records) = 2
    /\ \E rec \in resp.records :
          /\ rec.row.gross_pay = 1234565
          /\ rec.derived.total_deductions = 100009
          /\ rec.derived.net_pay = 113456

IftaReported == resp.op = "ifta_report" /\ resp.ok

\* One jurisdiction of a report against the claimed arithmetic, a displayed
\* figure being within half a unit of its last digit of the exact one: miles m,
\* purchased gallons gp, total miles M, total gallons G.
JurisdictionAsClaimed(j, M, G) ==
    LET r == IF j.state \in DOMAIN IFTA_RATES THEN IFTA_RATES[j.state] ELSE 250
    IN  /\ j.tax_rate = r
        /\ (G <= 0 \/ M <= 0) => j.gallons_consumed = 0
        \* gallons_consumed = m / (M / G), to the thousandth of a gallon
        /\ (G > 0 /\ M > 0) => 2 * Abs(j.gallons_consumed * M - j.miles * G) <= M
        \* tax_due = (gallons_consumed - gp) * rate, to the cent
        /\ (G <= 0 \/ M <= 0) => 2 * Abs(10000 * j.tax_due + j.gallons_purchased * r) <= 10000
        /\ (G > 0 /\ M > 0) =>
              Abs(10000 * M * j.tax_due - (j.miles * G - j.gallons_purchased * M) * r)
                  <= 10000 * M
        /\ j.status = (IF j.tax_due > 0 THEN "DUE" ELSE "CREDIT")

\* C4: in every report each jurisdiction has gallons_consumed = miles / fleet_mpg
\* with fleet_mpg = total miles / total gallons (0 consumed when no gallons were
\* purchased), tax_due = (gallons_consumed - gallons_purchased) x rate with the
\* rate of IFTA_RATES or 0.25, status 'DUE' exactly when tax_due > 0, and
\* total_tax_due is the sum of the tax_due values.
C4_ReportArithmetic ==
    IftaReported =>
        /\ \A j \in resp.jurisdictions :
              JurisdictionAsClaimed(j, resp.total_miles, resp.total_gallons)
        /\ resp.total_tax_due = SumOf(resp.jurisdictions, "tax_due")

\* The rows a read of derived fields retrieved, and the derived values it
\* returned for them.
RowsOf(r) ==
    IF r.op = "ifta_report"
    THEN { [state |-> j.state, miles |-> j.miles, gallons |-> j.gallons_purchased] :
             j \in r.jurisdictions }
    ELSE { rec.row : rec \in r.records }

DerivedOf(r) ==
    IF r.op = "ifta_report"
    THEN { [state |-> j.state, tax_due |-> j.tax_due, total |-> r.total_tax_due] :
             j \in r.jurisdictions }
    ELSE { [id |-> rec.row.id, derived |-> rec.derived] : rec \in r.records }

\* The last response and the remembered one are of the same read and of
\* identical retrieved rows.
SameRowsRead(ops) ==
    /\ resp.op \in ops
    /\ resp.ok
    /\ seen # NULL
    /\ seen[1].op = resp.op
    /\ RowsOf(seen[1]) = RowsOf(resp)

\* C6 as claimed: two requests that retrieve identical stored rows return
\* identical compliance statuses, net pay and IFTA tax due, whatever the time
\* of the requests and the operations between them.
C6_DerivedPure ==
    SameRowsRead({"get_compliance", "get_pay_records", "ifta_report"}) =>
        DerivedOf(seen[1]) = DerivedOf(resp)

\* C6 as amended: that holds of net pay and IFTA tax due; the compliance
\* statuses are identical when the two requests are also made at the same time.
C6_DerivedPureButStatus ==
    /\ SameRowsRead({"get_pay_records", "ifta_report"}) =>
          DerivedOf(seen[1]) = DerivedOf(resp)
    /\ (SameRowsRead({"get_compliance"}) /\ seen[1].at = resp.at) =>
          DerivedOf(seen[1]) = DerivedOf(resp)

\* C6 witness: two IFTA reports made at different times, with a pay record
\* created meanwhile, retrieved the same rows, for which tax is due.
C6_Witness ==
    /\ SameRowsRead({"ifta_report"})
    /\ seen[1].at # resp.at
    /\ \E j \in resp.jurisdictions : j.tax_due > 0
    /\ \E p \in pay_records : TRUE

SignupDone == resp'.op = "company_signup" /\ calls'.company_signup # calls.company_signup

EmailUsed(email) ==
    \/ \E c \in companies : c.email = email
    \/ \E u \in users : u.email = email

\* C10: a company_signup that succeeds adds exactly one company and exactly one
\* user, a 'manager' of that company; one for an email that a company or a
\* user, an invited driver included, already has fails with HTTP 400 'Email
\* already registered' and adds neither a company nor a user.
C10_SignupAllOrNothing ==
    [][SignupDone =>
        /\ resp'.ok =>
              /\ companies \subseteq companies'
              /\ users \subseteq users'
              /\ Cardinality(companies' \ companies) = 1
              /\ Cardinality(users' \ users) = 1
              /\ \A c \in companies' \ companies : \A u \in users' \ users :
                    /\ u.role = "manager"
                    /\ u.company_id = c.id
                    /\ c.email = resp'.email
                    /\ u.email = resp'.email
                    /\ \A o \in companies : o.id # c.id
                    /\ \A o \in users : o.id # u.id
        /\ EmailUsed(resp'.email) =>
              /\ ~resp'.ok
              /\ resp'.code = 400
              /\ resp'.detail = "Email already registered"
              /\ companies' = companies
              /\ users' = users
        /\ (~resp'.ok) => (companies' = companies /\ users' = users)]_vars

\* C10 witness: a signup with the email of an invited driver who has not
\* activated was refused, after one that succeeded, and there is one company.
C10_Witness ==
    /\ resp.op = "company_signup"
    /\ ~resp.ok
    /\ calls.company_signup = 2
    /\ Cardinality(companies) = 1
    /\ \E u \in users : u.email = resp.email /\ u.is_active = 0 /\ u.role = "driver"
    /\ \A c \in companies : c.email # resp.email
    /\ \A c \in companies : \E u \in users : u.role = "manager" /\ u.company_id = c.id

LoggedIn == resp.op = "login" /\ resp.ok

\* C11: a login succeeds only for the email and password of a user row whose
\* password_hash is the hash of the password, and fails with HTTP 401
\* otherwise; a user with is_active = 0 has an empty password_hash, and no
\* login is that user's.
C11_LoginByHash ==
    /\ LoggedIn =>
          \E u \in users : /\ u.email = resp.email
                           /\ u.password_hash = hash_password(resp.password)
                           /\ u.id = resp.user_id
                           /\ u.is_active = 1
    /\ (resp.op = "login" /\ ~resp.ok) => resp.code = 401
    /\ (resp.op = "login" /\ ~\E u \in users : /\ u.email = resp.email
                                               /\ u.password_hash = hash_password(resp.password))
          => ~resp.ok
    /\ \A u \in users : u.is_active = 0 => u.password_hash = ""

\* C11 witness: the invited driver, not yet active, was refused a login with
\* the empty password, while the manager's row is there.
C11_Witness ==
    /\ resp.op = "login"
    /\ ~resp.ok
    /\ resp.password = ""
    /\ \E u \in users : u.email = resp.email /\ u.is_active = 0 /\ u.password_hash = ""
    /\ \E u \in users : u.role = "manager"

\* Tokens drawn by the invite_driver calls made so far, and tokens some user
\* row holds.
TokenNo(t) == CASE t = "tok-1" -> 1 [] t = "tok-2" -> 2 [] OTHER -> 3

IssuedTokens == {t \in Tokens \cup {"tok-3"} : TokenNo(t) <= calls.invite_driver}

Holders(t, rows) == {u \in rows : u.invite_token = Some(t)}

AcceptStep == resp'.op = "accept_invite" /\ calls'.accept_invite = calls.accept_invite + 1

\* C12: accept_invite succeeds only when its (token, email) pair is that of a
\* user row; when it does, that user is active with the hash of the submitted
\* password and holds no token; a token that was issued and is held by no user
\* is never held again, and an accept_invite with it is answered HTTP 400
\* 'Invalid or expired invite link' and changes nothing.
C12_InviteSingleUse ==
    [][ /\ AcceptStep =>
            LET matched == {u \in Holders(resp'.token, users) : u.email = resp'.email}
            IN  /\ resp'.ok =>
                      /\ matched # {}
                      /\ \A u \in matched :
                            \E v \in users' : /\ v.id = u.id
                                              /\ v.is_active = 1
                                              /\ v.password_hash = hash_password(resp'.password)
                                              /\ v.invite_token = NULL
                      /\ Holders(resp'.token, users') = {}
                /\ matched = {} =>
                      /\ ~resp'.ok
                      /\ resp'.code = 400
                      /\ resp'.detail = "Invalid or expired invite link"
                      /\ users' = users
                      /\ companies' = companies
        /\ \A t \in IssuedTokens : Holders(t, users) = {} => Holders(t, users') = {}
      ]_vars

\* C12 witness: the invite was accepted and the same token and email were
\* submitted again: the second request was refused, the user is active.
C12_Witness ==
    /\ resp.op = "accept_invite"
    /\ ~resp.ok
    /\ resp.code = 400
    /\ resp.token \in IssuedTokens
    /\ calls.accept_invite = 2
    /\ \E u \in users : /\ u.email = resp.email
                        /\ u.is_active = 1
                        /\ u.invite_token = NULL
                        /\ u.role = "driver"

\* Days an invite link is said to stay valid.
InviteDays == 7

\* C13: an accept_invite whose token was issued more than 7 days earlier is
\* refused with HTTP 400, the status of 'Invalid or expired invite link', and
\* does not activate the user.
C13_InviteExpires ==
    [][ AcceptStep =>
          \A u \in Holders(resp'.token, users) :
              (u.email = resp'.email /\ now > u.created_at + InviteDays * TicksPerDay) =>
                  /\ ~resp'.ok
                  /\ resp'.code = 400
                  /\ users' = users
      ]_vars

\* C14: for an unsubscribed company whose trial ends at T, trial_status
\* answers 'trial' with 1 <= days_left <= 14 at every time before T and
\* 'expired' with days_left = 0 at T and after; for an unknown company_id it
\* answers HTTP 404.
C14_TrialByTime ==
    resp.op = "trial_status" =>
        LET found == {co \in companies : co.id = resp.company_id}
        IN  /\ found = {} => (~resp.ok /\ resp.code = 404)
            /\ \A co \in found :
                  (co.is_subscribed = 0 /\ ~IsNull(co.trial_ends_at)) =>
                      /\ resp.ok
                      /\ resp.at < Val(co.trial_ends_at) =>
                            /\ resp.status = "trial"
                            /\ Val(resp.days_left) >= 1
                            /\ Val(resp.days_left) <= TrialDays
                      /\ resp.at >= Val(co.trial_ends_at) =>
                            /\ resp.status = "expired"
                            /\ resp.days_left = Some(0)

GrantStep == calls'.make_superadmin = calls.make_superadmin + 1

WasSuperadmin(id) == \E u \in users : u.id = id /\ u.role = "superadmin"

\* C15: a user row gets the role 'superadmin' only in a make_superadmin call
\* that names the user's email and carries the secret; a call with a wrong or
\* missing secret is answered HTTP 403 'Invalid secret' and changes no row;
\* every other operation leaves the role of each existing user as it is and
\* creates users with the role 'manager' or 'driver' only.
C15_SuperadminBySecret ==
    [][ /\ \A v \in users' :
              (v.role = "superadmin" /\ ~WasSuperadmin(v.id)) =>
                  /\ GrantStep
                  /\ resp'.op = "make_superadmin"
                  /\ resp'.ok
                  /\ resp'.secret = Some("FREIGHTQUICK-SUPER-2026")
                  /\ resp'.email = Some(v.email)
        /\ (GrantStep /\ resp'.secret # Some("FREIGHTQUICK-SUPER-2026")) =>
              /\ ~resp'.ok
              /\ resp'.code = 403
              /\ resp'.detail = "Invalid secret"
              /\ users' = users
        /\ ~GrantStep =>
              \A v \in users' :
                  IF \E u \in users : u.id = v.id
                  THEN \E u \in users : u.id = v.id /\ u.role = v.role
                  ELSE v.role \in {"manager", "driver"}
      ]_vars

\* C15 witness: the second make_superadmin call carried the secret and made
\* the named user a superadmin, and another user is not one.
C15_Witness ==
    /\ resp.op = "make_superadmin"
    /\ resp.ok
    /\ calls.make_superadmin = 2
    /\ \E u \in users : u.role = "superadmin" /\ Some(u.email) = resp.email
    /\ \E u \in users : u.role # "superadmin"

AnalyticsRead == resp.op = "get_analytics"

\* daily_trend has one entry for each of the 14 consecutive days ending on the
\* day of the request.
TrendAsClaimed ==
    /\ Len(resp.daily_trend) = TrendDays
    /\ \A i \in 1..TrendDays :
          resp.daily_trend[i].date =
              CivilDate(resp.at \div TicksPerDay - (TrendDays - i)) % 10000

\* The counts of the summary are those of the stored rows.
CountsAsClaimed ==
    /\ resp.summary.total_drivers = Cardinality(drivers)
    /\ resp.summary.available_drivers =
           Cardinality({d \in drivers : d.status = "available"})
    /\ resp.summary.active_assignments =
           Cardinality({a \in assignments : a.status = "active"})

\* Two analytics responses with no write between them carry the same summary.
SummaryRepeats ==
    [][(AnalyticsRead /\ resp'.op = "get_analytics") => resp'.summary = resp.summary]_vars

\* C16 as stated: utilization_rate is exactly (total_drivers -
\* available_drivers) / max(total_drivers, 1) x 100.
C16_AnalyticsExact ==
    AnalyticsRead =>
        /\ TrendAsClaimed
        /\ CountsAsClaimed
        /\ resp.summary.utilization_rate * Cardinality(drivers) =
               (resp.summary.total_drivers - resp.summary.available_drivers) * 1000

\* C16: daily_trend has 14 entries, one per consecutive day ending today; the
\* summary is the same for the same stored rows; utilization_rate is within
\* 0.05 of (total_drivers - available_drivers) / max(total_drivers, 1) x 100
\* and in [0, 100], and 0 when there are no drivers; active_assignments is the
\* number of assignments with status 'active'.
C16_AnalyticsRounded ==
    /\ [](AnalyticsRead =>
            LET total == resp.summary.total_drivers
                busy  == total - resp.summary.available_drivers
                den   == IF total > 1 THEN total ELSE 1
            IN  /\ TrendAsClaimed
                /\ CountsAsClaimed
                /\ 2 * Abs(resp.summary.utilization_rate * den - busy * 1000) <= den
                /\ resp.summary.utilization_rate \in 0..1000
                /\ total = 0 => resp.summary.utilization_rate = 0)
    /\ SummaryRepeats

\* C16 witness: the dashboard read after two dispatches, on a later day than
\* the run began, with a utilization that is not a whole number of tenths.
C16_Witness ==
    /\ AnalyticsRead
    /\ resp.summary.active_assignments = 2
    /\ resp.at \div TicksPerDay > StartDay
    /\ ((resp.summary.total_drivers - resp.summary.available_drivers) * 1000)
           % resp.summary.total_drivers # 0
    /\ resp.daily_trend[1].revenue # resp.daily_trend[TrendDays].revenue

YearOf(date) == date \div 10000

QuarterOf(date) == (((date \div 100) % 100) - 1) \div 3 + 1

\* The rows of company c dated in quarter q of year y.
RowsOfQuarter(rows, date, c, q, y) ==
    {r \in rows : r.company_id = c /\ YearOf(r[date]) = y /\ QuarterOf(r[date]) = q}

StateRank(st) == CHOOSE i \in 1..Len(StateOrder) : StateOrder[i] = st

\* A stored row is selected by exactly one of the four quarterly queries of
\* its company for its year and by no query of another company.
InOneQuarter(rows, date) ==
    \A r \in rows :
        /\ Cardinality({q \in 1..4 :
               r \in InQuarter(rows, date, r.company_id, q, YearOf(r[date]))}) = 1
        /\ \A c \in Companies \ {r.company_id} : \A q \in 1..4 :
               r \notin InQuarter(rows, date, c, q, YearOf(r[date]))

\* C17: a report of company c for quarter q of year y totals exactly the miles
\* and gallons of c's rows dated in that quarter, state by state; each row is
\* selected by exactly one quarterly query of its company and by none of
\* another company; each state of those rows is listed exactly once, in
\* ascending order of state; a quarter outside 1..4 is answered with an error.
C17_QuarterlyReport ==
    /\ InOneQuarter(vehicle_miles, "trip_date")
    /\ InOneQuarter(fuel_entries, "fuel_date")
    /\ resp.op = "ifta_report" =>
          IF resp.quarter \notin 1..4 THEN ~resp.ok
          ELSE LET M == RowsOfQuarter(vehicle_miles, "trip_date",
                                      resp.company_id, resp.quarter, resp.year)
                   F == RowsOfQuarter(fuel_entries, "fuel_date",
                                      resp.company_id, resp.quarter, resp.year)
                   n == Len(resp.listed)
               IN  /\ resp.ok
                   /\ resp.total_miles = SumOf(M, "miles")
                   /\ resp.total_gallons = SumOf(F, "gallons")
                   /\ {resp.listed[i].state : i \in 1..n} =
                          {r.state : r \in M} \cup {r.state : r \in F}
                   /\ \A i \in 1..n :
                         /\ resp.listed[i].miles =
                                SumOf({r \in M : r.state = resp.listed[i].state}, "miles")
                         /\ resp.listed[i].gallons_purchased =
                                SumOf({r \in F : r.state = resp.listed[i].state}, "gallons")
                   /\ \A i \in 1..n : \A j \in 1..n :
                         i < j => StateRank(resp.listed[i].state)
                                      < StateRank(resp.listed[j].state)

\* C17 witness: a report of two states for a company and quarter, while
\* another company or another quarter has rows of its own.
C17_Witness ==
    /\ resp.op = "ifta_report"
    /\ resp.ok
    /\ Len(resp.listed) = 2
    /\ resp.total_miles > 0
    /\ \E r \in vehicle_miles :
          r.company_id # resp.company_id \/ QuarterOf(r.trip_date) # resp.quarter

\* C18: each assignments row references a driver and a load that exist, each
\* routes row an assignment that exists, and each load's non-null
\* assigned_driver_id a driver that exists.
C18_ReferencesExist ==
    /\ \A a \in assignments : DriverExists(a.driver_id) /\ LoadExists(a.load_id)
    /\ \A r \in routes : \E a \in assignments : a.id = r.assignment_id
    /\ \A l \in loads :
          ~IsNull(l.assigned_driver_id) => DriverExists(Val(l.assigned_driver_id))

ActiveOf(field, id) == {a \in assignments : a[field] = id /\ a.status = "active"}

\* C19: each load has at most one assignment with status 'active', the load's
\* assigned_driver_id is the driver of that assignment, and no driver has
\* more than one active assignment.
C19_OnePairing ==
    /\ \A l \in loads :
          /\ Cardinality(ActiveOf("load_id", l.id)) <= 1
          /\ \A a \in ActiveOf("load_id", l.id) : l.assigned_driver_id = Some(a.driver_id)
    /\ \A a \in assignments : Cardinality(ActiveOf("driver_id", a.driver_id)) <= 1

\* C20: the vehicle_miles rows written by a successful create_assignment carry
\* the load's id and company and their miles sum to the load's miles (to the
\* tenth of a mile the rows are rounded to).
C20_DispatchMilesSum ==
    [][ ( /\ calls'.create_assignment = calls.create_assignment + 1
          /\ resp'.op = "create_assignment"
          /\ resp'.ok )
        => LET written == vehicle_miles' \ vehicle_miles
               load    == CHOOSE l \in loads' : l.id = resp'.load_id
           IN  /\ \A r \in written :
                     r.load_id = Some(load.id) /\ r.company_id = load.company_id
               /\ Abs(10 * SumOf(written, "miles") - Val(load.miles)) <= 10
      ]_vars

\* C21: when a report has positive total miles and positive total gallons, the
\* gallons_consumed of its jurisdictions sum to total_gallons, up to 0.0005
\* gallons for each jurisdiction.
C21_ConsumptionApportioned ==
    (resp.op = "ifta_report" /\ resp.ok /\ resp.total_miles > 0 /\ resp.total_gallons > 0)
        => 2 * Abs(SumOf(resp.jurisdictions, "gallons_consumed") - resp.total_gallons)
               <= Cardinality(resp.jurisdictions)

\* C22: an export made right after a report of the same company, quarter and
\* year, with no write between them, lists the same states in the same order
\* with the same miles, gallons purchased, gallons consumed, tax rate, tax due
\* and status, and has the same fleet MPG.
C22_ExportAgrees ==
    [][ ( /\ resp.op = "ifta_report"
          /\ resp.ok
          /\ resp'.op = "ifta_export"
          /\ resp'.company_id = resp.company_id
          /\ resp'.quarter = resp.quarter
          /\ resp'.year = resp.year )
        => /\ resp'.ok
           /\ resp'.fleet_mpg = resp.fleet_mpg
           /\ resp'.lines = resp.listed
      ]_vars

\* The records of a summary and the dates it considers.
SummaryRows == IF resp.op = "compliance_summary" THEN compliance ELSE insurance_policies

SummaryFields ==
    IF resp.op = "compliance_summary" THEN {"cdl_expiry", "medical_card_expiry"}
    ELSE {"expiry_date"}

HasStatus(r, status) == \E f \in SummaryFields : get_compliance_status(r[f]) = status

\* C23: in a compliance or insurance summary expired, expiring_soon and
\* compliant are each >= 0 and sum to total; no record is counted both as
\* expired and as expiring soon; compliant is the number of records with
\* neither an expired nor an expiring-soon document among the dates considered.
C23_SummaryPartitions ==
    (resp.op \in {"compliance_summary", "insurance_summary"} /\ resp.at = now) =>
        /\ resp.total = Cardinality(SummaryRows)
        /\ resp.expired >= 0
        /\ resp.expiring_soon >= 0
        /\ resp.compliant >= 0
        /\ resp.expired + resp.expiring_soon + resp.compliant = resp.total
        /\ resp.expired + resp.expiring_soon =
               Cardinality({r \in SummaryRows :
                               HasStatus(r, "expired") \/ HasStatus(r, "expiring_soon")})
        /\ resp.compliant =
               Cardinality({r \in SummaryRows :
                               ~HasStatus(r, "expired") /\ ~HasStatus(r, "expiring_soon")})

RECURSIVE SumNetPay(_)
SumNetPay(records) ==
    IF records = {} THEN 0
    ELSE LET r == CHOOSE x \in records : TRUE
         IN  r.derived.net_pay + SumNetPay(records \ {r})

\* C24: a pay_summary made right after a get_pay_records with no driver
\* filter, with no write between them, has total_records equal to the number
\* of records listed, total_net equal to the sum of their net_pay (to half a
\* cent for each record) and total_net = total_gross - total_deductions (to
\* the cent).
C24_SummaryMatchesRecords ==
    [][ ( /\ PayRead
          /\ ~Truthy(resp.driver_id)
          /\ resp'.op = "pay_summary"
          /\ resp'.ok )
        => /\ resp'.total_records = Cardinality(resp.records)
           /\ 2 * Abs(resp'.total_net - SumNetPay(resp.records))
                 <= Cardinality(resp.records) + 1
           /\ Abs(resp'.total_net - (resp'.total_gross - resp'.total_deductions)) <= 1
      ]_vars

CreateAssignmentStep ==
    /\ calls'.create_assignment = calls.create_assignment + 1
    /\ resp'.op = "create_assignment"

\* C25: a create_assignment either persists all of its writes (the assignments
\* row, the load's status and assigned_driver_id, the routes row, the driver's
\* status when the driver exists) or, when it fails, none: every table is
\* left as it was before the call.
C25_AssignmentAllOrNothing ==
    [][ CreateAssignmentStep =>
          IF resp'.ok
          THEN /\ \E a \in assignments' \ assignments :
                     a.id = resp'.id /\ a.driver_id = resp'.driver_id
                                     /\ a.load_id = resp'.load_id
               /\ \E r \in routes' \ routes : r.assignment_id = resp'.id
               /\ \E l \in loads' :
                     /\ l.id = resp'.load_id
                     /\ l.status = "assigned"
                     /\ l.assigned_driver_id = Some(resp'.driver_id)
               /\ \A d \in drivers' : d.id = resp'.driver_id => d.status = "on_load"
          ELSE UNCHANGED <<fleet, office, accounts, fuel_entries>>
      ]_vars

\* C25 witness: a create_assignment named an existing driver who was available
\* and a load whose miles is null; it failed, and the driver is still
\* available, the load unassigned, and there is no assignment.
C25_Witness ==
    /\ resp.op = "create_assignment"
    /\ ~resp.ok
    /\ assignments = {}
    /\ \E d \in drivers : d.id = resp.driver_id /\ d.status = "available"
    /\ \E l \in loads :
          /\ l.id = resp.load_id
          /\ IsNull(l.miles)
          /\ l.status = "available"
          /\ IsNull(l.assigned_driver_id)

\* Rows that were not seeded by init_db: the ones an API call created.
CreatedDrivers == {d \in drivers : \A o \in SeedDrivers : o.id # d.id}

CreatedLoads == {l \in loads : \A o \in SeedLoads : o.id # l.id}

CreatedIn(rows) ==
    IF resp.op = "get_drivers" THEN rows \cap CreatedDrivers ELSE rows \cap CreatedLoads

AllCompanyOne ==
    /\ \A d \in drivers : d.company_id = 1
    /\ \A l \in loads : l.company_id = 1

\* C26 as stated: no request writes drivers.company_id or loads.company_id, so
\* every driver and every load is of company 1, and get_drivers and get_loads
\* called with any company_id other than 1 return no created row.
C26_OtherCompanySeesNone ==
    /\ AllCompanyOne
    /\ (resp.op \in {"get_drivers", "get_loads"} /\ resp.tenant # 1)
          => CreatedIn(resp.rows) = {}

\* C26, amended: no request writes drivers.company_id or loads.company_id, so
\* every driver and every load is of company 1, and get_drivers and get_loads
\* called with a company_id other than 1 and other than 0 return no row at
\* all; company_id=0 is no filter and returns the rows of company 1.
C26_NonZeroCompanySeesNone ==
    /\ AllCompanyOne
    /\ (resp.op \in {"get_drivers", "get_loads"} /\ resp.tenant \notin {0, 1})
          => resp.rows = {}
    /\ (resp.op = "get_drivers" /\ resp.tenant = 0)
          => \E st \in {NULL, Some("available")} : resp.rows = DriverRows(st, NULL)
    /\ (resp.op = "get_loads" /\ resp.tenant = 0)
          => \E st \in {NULL, Some("available")} : resp.rows = LoadRows(st, NULL)

\* A created driver and a created load were each updated by a request whose
\* body carried another company's id, and that company then lists its drivers.
C26_Witness ==
    /\ resp.op = "get_drivers"
    /\ resp.tenant = 2
    /\ resp.rows = {}
    /\ \E d \in CreatedDrivers : d.status = "off_duty"
    /\ \E l \in CreatedLoads : l.status = "cancelled"

OptimizeStep == calls'.optimize_route = calls.optimize_route + 1

\* What optimize_route leaves of the routes: the same rows, each as it was but
\* for total_miles, estimated_hours and fuel_cost of the rows of the given
\* assignment.
RoutesFramed ==
    /\ Cardinality(routes') = Cardinality(routes)
    /\ \A r \in routes : \E n \in routes' :
          /\ n.id = r.id
          /\ [n EXCEPT !.total_miles = 0, !.estimated_hours = 0, !.fuel_cost = 0]
                = [r EXCEPT !.total_miles = 0, !.estimated_hours = 0, !.fuel_cost = 0]
          /\ r.assignment_id # resp'.assignment_id => n = r

\* C27: optimize_route never increases the stored total_miles of a route,
\* changes only total_miles, estimated_hours and fuel_cost of the routes row of
\* the given assignment, and leaves toll_cost, the loads and the vehicle_miles
\* rows as they were; a further call on the same assignment therefore leaves
\* total_miles at or below its value after the previous call.
C27_OptimizeOnlyShortens ==
    [][ OptimizeStep =>
          /\ RoutesFramed
          /\ loads' = loads
          /\ vehicle_miles' = vehicle_miles
          /\ \A r \in routes : \E n \in routes' :
                n.id = r.id /\ n.total_miles <= r.total_miles ]_vars

====
